---- MODULE Spec2Model ----
(***************************************************************************)
(* A model of src/src/filesystem/lib.ts: path validation against the      *)
(* allowed directories, the exclusive-create / temp-file + rename writer,  *)
(* the edit engine and the chunked line readers, running as asynchronous   *)
(* calls over a file system that other parties change between the calls'   *)
(* awaits.                                                                 *)
(***************************************************************************)
EXTENDS Integers, Sequences, FiniteSets, TLC

VARIABLES
  allowedDirectories,  \* lib.ts:11, the module-level list, as a set of path strings
  fs,                  \* the file system: physical path -> node
  calls,               \* one record per client: the call in flight and its locals
  lastCommit           \* history: the content whose create or rename completed last

vars == <<allowedDirectories, fs, calls, lastCommit>>

(***************************************************************************)
(* Bounds of the model.                                                    *)
(***************************************************************************)
MaxReqLen == 2        \* segments in a requested path
MaxAllowed == 2       \* directories in the allowed set
WriteChunk == 1       \* characters that reach a file in one write
MaxEdits == 2         \* edits in one applyFileEdits call
MaxLines == 2         \* lines asked of tailFile and headFile
CHUNK_SIZE == 2       \* bytes read at a time (1024 in lib.ts:294 and lib.ts:351)
MaxDocLines == 3      \* lines of a file read by tailFile and headFile
MaxRgLines == 3       \* lines ripgrep prints in one run
MaxResultsBound == 2  \* the largest maxResults asked of searchFileContents

(***************************************************************************)
(* Paths.  A name is a sequence of characters, a path a sequence of names; *)
(* PathStr gives the string the code compares.                             *)
(***************************************************************************)
nA == <<"a">>
nA2 == <<"a", "2">>
nE == <<"e">>
nF == <<"f">>
DotDot == <<".", ".">>
Root == <<>>
NoPath == <<<<"?">>>>
NoText == <<"?">>

RECURSIVE JoinSegs(_)
JoinSegs(p) ==
  IF p = <<>> THEN <<>> ELSE <<"/">> \o Head(p) \o JoinSegs(Tail(p))

PathStr(p) ==
  IF p = Root THEN <<"/">> ELSE JoinSegs(p)

StartsWith(s, pre) ==
  Len(pre) <= Len(s) /\ SubSeq(s, 1, Len(pre)) = pre

Dirname(p) ==
  IF p = Root THEN Root ELSE SubSeq(p, 1, Len(p) - 1)

Basename(p) ==
  p[Len(p)]

HomeDir == <<nA2>>
Cwd == <<nA>>

TopDirs == {<<nA>>, <<nA2>>, <<nE>>}

\* path-utils.js expandHome: a leading ~ becomes the home directory
expandHome(req) ==
  IF req.kind = "home"
    THEN [kind |-> "abs", segs |-> HomeDir \o req.segs]
    ELSE req

RECURSIVE Collapse(_, _)
Collapse(done, rest) ==
  IF rest = <<>> THEN done
  ELSE IF Head(rest) = DotDot
    THEN Collapse(Dirname(done), Tail(rest))
    ELSE Collapse(Append(done, Head(rest)), Tail(rest))

\* path.isAbsolute(p) ? path.resolve(p) : path.resolve(process.cwd(), p)
ResolveAbsolute(expanded) ==
  IF expanded.kind = "abs"
    THEN Collapse(Root, expanded.segs)
    ELSE Collapse(Root, Cwd \o expanded.segs)

\* path-utils.js normalizePath on an already resolved POSIX path: its string
normalizePath(p) ==
  PathStr(p)

\* path-validation.js: the path equals a directory of the list or starts
\* with directory + separator
isPathWithinAllowedDirectories(absolutePath, dirs) ==
  \E d \in dirs :
    absolutePath = d \/ StartsWith(absolutePath, d \o <<"/">>)

(***************************************************************************)
(* The file system.  Top-level directories always exist; fs holds the      *)
(* entries below them.  A symbolic link holds an absolute target.          *)
(***************************************************************************)
NoNode == [kind |-> "none", target |-> NoPath, content |-> <<>>, ino |-> 0]
DirNode == [kind |-> "dir", target |-> NoPath, content |-> <<>>, ino |-> 0]
LinkNode(t) == [kind |-> "link", target |-> t, content |-> <<>>, ino |-> 0]
FileNode(text, i) == [kind |-> "file", target |-> NoPath, content |-> text, ino |-> i]

Node(fsys, p) ==
  IF p \in DOMAIN fsys THEN fsys[p]
  ELSE IF p = Root \/ p \in TopDirs THEN DirNode
  ELSE NoNode

Put(fsys, p, n) ==
  [q \in DOMAIN fsys \cup {p} |-> IF q = p THEN n ELSE fsys[q]]
Del(fsys, p) ==
  [q \in DOMAIN fsys \ {p} |-> fsys[q]]

\* fs.realpath: follow every symbolic link of every component
RECURSIVE Walk(_, _, _)
Walk(fsys, done, rest) ==
  IF rest = <<>> THEN [ok |-> TRUE, path |-> done, code |-> "OK"]
  ELSE LET cand == Append(done, Head(rest))
           n == Node(fsys, cand)
       IN CASE n.kind = "none" -> [ok |-> FALSE, path |-> NoPath, code |-> "ENOENT"]
            [] n.kind = "link" -> Walk(fsys, Root, n.target \o Tail(rest))
            [] n.kind = "file" ->
                 IF Tail(rest) = <<>>
                   THEN [ok |-> TRUE, path |-> cand, code |-> "OK"]
                   ELSE [ok |-> FALSE, path |-> NoPath, code |-> "ENOTDIR"]
            [] OTHER -> Walk(fsys, cand, Tail(rest))

Realpath(fsys, p) ==
  Walk(fsys, Root, p)

(***************************************************************************)
(* Text.  A text is a sequence of characters; "\n" is the line feed and   *)
(* "\r" the carriage return.                                               *)
(***************************************************************************)
RECURSIVE normalizeLineEndings(_)
\* text.replace(/\r\n/g, '\n')
normalizeLineEndings(text) ==
  IF Len(text) < 2 THEN text
  ELSE IF text[1] = "\r" /\ text[2] = "\n"
    THEN <<"\n">> \o normalizeLineEndings(SubSeq(text, 3, Len(text)))
    ELSE <<text[1]>> \o normalizeLineEndings(Tail(text))

\* String.prototype.indexOf, 0-based, -1 when absent
IndexOf(text, sub) ==
  LET at == {i \in 0..(Len(text) - Len(sub)) : SubSeq(text, i + 1, i + Len(sub)) = sub}
  IN IF at = {} THEN -1 ELSE CHOOSE i \in at : \A k \in at : i <= k

\* String.prototype.includes
Includes(text, sub) == IndexOf(text, sub) >= 0

\* the back quote and the quote, as characters of a text
BackQuote == "bq"
Quote == "q"

RECURSIVE Substitute(_, _, _, _)
\* the replacement text of String.prototype.replace with a string pattern:
\* $$ is a dollar, $& the match, $ with a back quote the text before it,
\* $ with a quote the text after it
Substitute(repl, matched, before, after) ==
  IF repl = <<>> THEN <<>>
  ELSE IF repl[1] = "$" /\ Len(repl) >= 2 /\ repl[2] \in {"$", "&", BackQuote, Quote}
    THEN (CASE repl[2] = "$" -> <<"$">>
            [] repl[2] = "&" -> matched
            [] repl[2] = BackQuote -> before
            [] OTHER -> after)
         \o Substitute(SubSeq(repl, 3, Len(repl)), matched, before, after)
    ELSE <<repl[1]>> \o Substitute(Tail(repl), matched, before, after)

\* modifiedContent.replace(normalizedOld, normalizedNew): the first occurrence
Replace(text, pat, repl) ==
  LET i == IndexOf(text, pat)
      before == SubSeq(text, 1, i)
      after == SubSeq(text, i + Len(pat) + 1, Len(text))
  IN IF i < 0 THEN text
     ELSE before \o Substitute(repl, pat, before, after) \o after

RECURSIVE SplitLines(_)
\* text.split('\n')
SplitLines(text) ==
  LET i == IndexOf(text, <<"\n">>)
  IN IF i < 0 THEN <<text>>
     ELSE <<SubSeq(text, 1, i)>> \o SplitLines(SubSeq(text, i + 2, Len(text)))

RECURSIVE JoinLines(_)
\* lines.join('\n')
JoinLines(lines) ==
  IF lines = <<>> THEN <<>>
  ELSE IF Len(lines) = 1 THEN lines[1]
  ELSE lines[1] \o <<"\n">> \o JoinLines(Tail(lines))

IsSpace(ch) == ch \in {" ", "\t", "\n", "\r"}

\* line.match(/^\s*/)[0]: the leading white space
LeadingSpace(line) ==
  LET n == Cardinality({k \in 1..Len(line) : \A i \in 1..k : IsSpace(line[i])})
  IN SubSeq(line, 1, n)

TrimStart(line) ==
  SubSeq(line, Len(LeadingSpace(line)) + 1, Len(line))

TrimEnd(line) ==
  LET n == Cardinality({k \in 1..Len(line) :
                          \A i \in (Len(line) - k + 1)..Len(line) : IsSpace(line[i])})
  IN SubSeq(line, 1, Len(line) - n)

\* String.prototype.trim
Trim(line) == TrimEnd(TrimStart(line))

\* ' '.repeat(n)
Spaces(n) == [i \in 1..n |-> " "]

Max(a, b) == IF a > b THEN a ELSE b

\* oldLines.every(...): the window of content lines at index i (0-based)
\* equals the old lines, white space at both ends of each line set aside
WindowMatches(contentLines, oldLines, i) ==
  \A j \in 1..Len(oldLines) : Trim(oldLines[j]) = Trim(contentLines[i + j])

\* the replacement lines: the first takes the indentation of the matched
\* line, the others their own indentation relative to the old line's
NewLines(normalizedNew, oldLines, originalIndent) ==
  LET lines == SplitLines(normalizedNew)
  IN [j \in 1..Len(lines) |->
        IF j = 1 THEN originalIndent \o TrimStart(lines[j])
        ELSE LET oldIndent == IF j <= Len(oldLines) THEN LeadingSpace(oldLines[j]) ELSE <<>>
                 newIndent == LeadingSpace(lines[j])
             IN IF oldIndent # <<>> /\ newIndent # <<>>
                  THEN originalIndent
                       \o Spaces(Max(0, Len(newIndent) - Len(oldIndent)))
                       \o TrimStart(lines[j])
                  ELSE lines[j]]

\* a turn of the loop that takes the last matching window of lines
applyEdit_LastWindow(modifiedContent, edit) ==
  LET normalizedOld == normalizeLineEndings(edit.oldText)
      normalizedNew == normalizeLineEndings(edit.newText)
      oldLines == SplitLines(normalizedOld)
      contentLines == SplitLines(modifiedContent)
      hits == {i \in 0..(Len(contentLines) - Len(oldLines)) :
                 WindowMatches(contentLines, oldLines, i)}
  IN IF Includes(modifiedContent, normalizedOld)
       THEN [ok |-> TRUE, text |-> Replace(modifiedContent, normalizedOld, normalizedNew)]
     ELSE IF hits = {} THEN [ok |-> FALSE, text |-> modifiedContent]
     ELSE LET i == CHOOSE h \in hits : \A k \in hits : h >= k
              originalIndent == LeadingSpace(contentLines[i + 1])
              newLines == NewLines(normalizedNew, oldLines, originalIndent)
          IN [ok |-> TRUE,
              text |-> JoinLines(SubSeq(contentLines, 1, i) \o newLines
                         \o SubSeq(contentLines, i + Len(oldLines) + 1, Len(contentLines)))]

\* one turn of the loop over the edits: the exact match, else the first
\* matching window of lines, else no match
applyEdit(modifiedContent, edit) ==
  LET normalizedOld == normalizeLineEndings(edit.oldText)
      normalizedNew == normalizeLineEndings(edit.newText)
      oldLines == SplitLines(normalizedOld)
      contentLines == SplitLines(modifiedContent)
      hits == {i \in 0..(Len(contentLines) - Len(oldLines)) :
                 WindowMatches(contentLines, oldLines, i)}
  IN IF Includes(modifiedContent, normalizedOld)
       THEN [ok |-> TRUE, text |-> Replace(modifiedContent, normalizedOld, normalizedNew)]
     ELSE IF hits = {} THEN [ok |-> FALSE, text |-> modifiedContent]
     ELSE LET i == CHOOSE h \in hits : \A k \in hits : h <= k
              originalIndent == LeadingSpace(contentLines[i + 1])
              newLines == NewLines(normalizedNew, oldLines, originalIndent)
          IN [ok |-> TRUE,
              text |-> JoinLines(SubSeq(contentLines, 1, i) \o newLines
                         \o SubSeq(contentLines, i + Len(oldLines) + 1, Len(contentLines)))]

RECURSIVE applyEdits_SkipUnmatched(_, _)
\* a loop that goes on to the next edit when one finds no match
applyEdits_SkipUnmatched(modifiedContent, edits) ==
  IF edits = <<>>
    THEN [ok |-> TRUE, text |-> modifiedContent, oldText |-> NoText]
    ELSE applyEdits_SkipUnmatched(applyEdit(modifiedContent, Head(edits)).text, Tail(edits))

RECURSIVE applyEdits_LastFirst(_, _)
\* a loop that takes the edits from the last to the first
applyEdits_LastFirst(modifiedContent, edits) ==
  IF edits = <<>>
    THEN [ok |-> TRUE, text |-> modifiedContent, oldText |-> NoText]
    ELSE LET r == applyEdit(modifiedContent, edits[Len(edits)])
         IN IF r.ok THEN applyEdits_LastFirst(r.text, SubSeq(edits, 1, Len(edits) - 1))
            ELSE [ok |-> FALSE, text |-> modifiedContent,
                  oldText |-> edits[Len(edits)].oldText]

RECURSIVE applyEdits(_, _)
\* for (const edit of edits): each edit against the content the earlier
\* edits produced; the first edit without a match throws, with its oldText
applyEdits(modifiedContent, edits) ==
  IF edits = <<>>
    THEN [ok |-> TRUE, text |-> modifiedContent, oldText |-> NoText]
    ELSE LET r == applyEdit(modifiedContent, Head(edits))
         IN IF r.ok THEN applyEdits(r.text, Tail(edits))
            ELSE [ok |-> FALSE, text |-> modifiedContent, oldText |-> Head(edits).oldText]

(***************************************************************************)
(* Glob patterns.  A pattern is a text; the index tool is plocate.         *)
(***************************************************************************)
\* the length of the match of /\*\*\/+/ at the start of a text, 0 for none
StarStarSlashes(s) ==
  IF Len(s) >= 3 /\ s[1] = "*" /\ s[2] = "*" /\ s[3] = "/"
    THEN 2 + Cardinality({k \in 3..Len(s) : \A i \in 3..k : s[i] = "/"})
    ELSE 0

\* the length of the match of /\/+\*\*/ at the start of a text, 0 for none
SlashesStarStar(s) ==
  LET k == Cardinality({j \in 1..Len(s) : \A i \in 1..j : s[i] = "/"})
  IN IF k >= 1 /\ Len(s) >= k + 2 /\ s[k + 1] = "*" /\ s[k + 2] = "*"
       THEN k + 2 ELSE 0

RECURSIVE RemoveStarStarSlashes(_)
\* .replace(/\*\*\/+/g, '')
RemoveStarStarSlashes(s) ==
  IF s = <<>> THEN <<>>
  ELSE IF StarStarSlashes(s) > 0
    THEN RemoveStarStarSlashes(SubSeq(s, StarStarSlashes(s) + 1, Len(s)))
    ELSE <<s[1]>> \o RemoveStarStarSlashes(Tail(s))

RECURSIVE RemoveSlashesStarStar(_)
\* .replace(/\/+\*\*/g, '')
RemoveSlashesStarStar(s) ==
  IF s = <<>> THEN <<>>
  ELSE IF SlashesStarStar(s) > 0
    THEN RemoveSlashesStarStar(SubSeq(s, SlashesStarStar(s) + 1, Len(s)))
    ELSE <<s[1]>> \o RemoveSlashesStarStar(Tail(s))

\* .replace(/^\*\*\/+/, '')
RemoveLeadingStarStar(s) ==
  SubSeq(s, StarStarSlashes(s) + 1, Len(s))

\* .replace(/\/+\*\*$/, ''): the leftmost run of slashes that "**" and the
\* end of the text follow
RemoveTrailingStarStar(s) ==
  LET at == {i \in 1..Len(s) : SlashesStarStar(SubSeq(s, i, Len(s))) = Len(s) - i + 1}
  IN IF at = {} THEN s
     ELSE SubSeq(s, 1, (CHOOSE i \in at : \A k \in at : i <= k) - 1)

\* what preparePatternForPlocate returns for null
NoPattern == <<"null">>

\* a preparePatternForPlocate that lets brace groups through
preparePatternForPlocate_Braces(globPattern) ==
  LET converted == RemoveSlashesStarStar(RemoveStarStarSlashes(
                     RemoveTrailingStarStar(RemoveLeadingStarStar(globPattern))))
  IN IF \/ Includes(converted, <<"*", "*">>)
        \/ converted = <<>> \/ converted = <<"/">>
        \/ StartsWith(converted, <<"!">>)
        \/ Includes(converted, <<"\\">>)
       THEN NoPattern
       ELSE converted

\* preparePatternForPlocate: the "**" segments removed, then null for what
\* plocate does not support
preparePatternForPlocate(globPattern) ==
  LET converted == RemoveSlashesStarStar(RemoveStarStarSlashes(
                     RemoveTrailingStarStar(RemoveLeadingStarStar(globPattern))))
  IN IF \/ Includes(converted, <<"*", "*">>)
        \/ Includes(converted, <<"{">>)
        \/ \E op \in {"!", "?", "*", "+", "@"} : Includes(converted, <<op, "(">>)
        \/ converted = <<>>
        \/ converted = <<"/">>
        \/ StartsWith(converted, <<"!">>)
        \/ Includes(converted, <<"\\">>)
       THEN NoPattern
       ELSE converted

RECURSIVE SplitOn(_, _)
\* text.split(ch)
SplitOn(text, ch) ==
  LET i == IndexOf(text, <<ch>>)
  IN IF i < 0 THEN <<text>>
     ELSE <<SubSeq(text, 1, i)>> \o SplitOn(SubSeq(text, i + 2, Len(text)), ch)

RECURSIVE JoinOn(_, _)
\* parts.join(ch)
JoinOn(parts, ch) ==
  IF parts = <<>> THEN <<>>
  ELSE IF Len(parts) = 1 THEN parts[1]
  ELSE parts[1] \o <<ch>> \o JoinOn(Tail(parts), ch)

\* the parts of a text between slashes, empty parts left out
SlashParts(text) ==
  LET parts == SplitOn(text, "/")
      keep == {i \in 1..Len(parts) : parts[i] # <<>>}
      Nth(k) == CHOOSE i \in keep : Cardinality({j \in keep : j < i}) = k - 1
  IN [k \in 1..Cardinality(keep) |-> parts[Nth(k)]]

RECURSIVE GlobChars(_, _)
\* a text against a pattern of characters: * is any run of characters,
\* ? one character, a backslash takes the next character as it is
GlobChars(pat, str) ==
  IF pat = <<>> THEN str = <<>>
  ELSE IF pat[1] = "*"
    THEN \E k \in 0..Len(str) : GlobChars(Tail(pat), SubSeq(str, k + 1, Len(str)))
  ELSE IF pat[1] = "?"
    THEN str # <<>> /\ GlobChars(Tail(pat), Tail(str))
  ELSE IF pat[1] = "\\" /\ Len(pat) >= 2
    THEN str # <<>> /\ str[1] = pat[2]
         /\ GlobChars(SubSeq(pat, 3, Len(pat)), Tail(str))
  ELSE str # <<>> /\ str[1] = pat[1] /\ GlobChars(Tail(pat), Tail(str))

RECURSIVE GlobParts(_, _)
\* the parts of a path against the parts of a pattern: a part "**" is any
\* number of path parts, another part matches one path part
GlobParts(pats, parts) ==
  IF pats = <<>> THEN parts = <<>>
  ELSE IF Head(pats) = <<"*", "*">>
    THEN \/ GlobParts(Tail(pats), parts)
         \/ parts # <<>> /\ GlobParts(pats, Tail(parts))
  ELSE /\ parts # <<>>
       /\ GlobChars(Head(pats), Head(parts))
       /\ GlobParts(Tail(pats), Tail(parts))

\* the patterns a group of alternatives in a pattern stands for
Alternatives(pat, open, sep, close) ==
  LET i == IndexOf(pat, open)
      j == IndexOf(pat, <<close>>)
  IN IF i < 0 \/ j < i THEN {pat}
     ELSE LET alts == SplitOn(SubSeq(pat, i + Len(open) + 1, j), sep)
          IN {SubSeq(pat, 1, i) \o alts[k] \o SubSeq(pat, j + 2, Len(pat)) :
                k \in 1..Len(alts)}

\* brace expansion {x,y}
BraceExpand(pat) == Alternatives(pat, <<"{">>, ",", "}")

\* the extended glob @(x|y): one of the alternatives
ExtGlobExpand(pat) == Alternatives(pat, <<"@", "(">>, "|", ")")

\* what a pattern without a leading "!" matches
MatchesPositive(relativePath, pattern) ==
  \E b \in BraceExpand(pattern) : \E q \in ExtGlobExpand(b) :
    GlobParts(SlashParts(q), SlashParts(relativePath))

\* minimatch(relativePath, pattern, { dot: true })
minimatch(relativePath, pattern) ==
  IF pattern = <<>> THEN relativePath = <<>>
  ELSE IF pattern[1] = "!"
    THEN ~MatchesPositive(relativePath, Tail(pattern))
  ELSE MatchesPositive(relativePath, pattern)

\* plocate PATTERN: a pattern with a glob character is matched against the
\* whole path, * running over slashes too; another pattern matches any path
\* it is part of
plocateMatches(pathText, pattern) ==
  IF \E i \in 1..Len(pattern) : pattern[i] \in {"*", "?", "["}
    THEN GlobChars(pattern, pathText)
    ELSE Includes(pathText, pattern)

\* path.relative(rootPath, fullPath) for a path at or under the root
Relative(rootPath, fullPath) ==
  IF Len(fullPath) >= Len(rootPath) /\ SubSeq(fullPath, 1, Len(rootPath)) = rootPath
    THEN JoinOn(SubSeq(fullPath, Len(rootPath) + 1, Len(fullPath)), "/")
    ELSE <<".", ".">> \o PathStr(fullPath)

(***************************************************************************)
(* Calls.                                                                  *)
(***************************************************************************)
Clients == {1, 2}
Tag(p) == IF p = 1 THEN "1" ELSE "2"

NoErr == "none"
ErrPathOutside == "Access denied - path outside allowed directories"
ErrSymlinkOutside == "Access denied - symlink target outside allowed directories"
ErrParentOutside == "Access denied - parent directory outside allowed directories"
ErrParentMissing == "Parent directory does not exist"
ErrNoMatch == "Could not find exact match for edit"
ErrRgMissing == "ripgrep (rg) is not installed. Please install ripgrep to use this feature."
ErrRgFailed == "ripgrep execution failed: "

NoReq == [kind |-> "abs", segs |-> NoPath]

Idle ==
  [op |-> "none", pc |-> "idle", requestedPath |-> NoReq, absolute |-> NoPath,
   realPath |-> NoPath, realParentPath |-> NoPath, ret |-> NoPath,
   err |-> NoErr, fsCalls |-> 0,
   inner |-> "none", validated |-> FALSE, filePath |-> NoPath,
   content |-> NoText, tempPath |-> NoPath, written |-> 0,
   pendingErr |-> NoErr, touched |-> {}, linkSeen |-> NoPath,
   data |-> NoText, during |-> "none",
   numLines |-> 0, fileSize |-> 0, position |-> 0, linesFound |-> 0,
   remainingText |-> <<>>, lines |-> <<>>, buffer |-> <<>>, bytesRead |-> 0,
   fdData |-> NoText, text |-> NoText,
   edits |-> <<>>, dryRun |-> FALSE, raw |-> NoText, original |-> NoText,
   modified |-> NoText, diff |-> <<>>, errText |-> NoText,
   prev |-> [path |-> NoPath, content |-> NoText],
   rootPath |-> NoPath, pattern |-> NoText, excludePatterns |-> <<>>,
   usePlocate |-> FALSE, plocateArgs |-> <<>>, exit |-> "none",
   allPaths |-> <<>>, results |-> <<>>, found |-> <<>>,
   currentPath |-> NoPath, stack |-> <<>>, readdirs |-> 0,
   listed |-> <<>>, unread |-> {},
   maxResults |-> 0, includeLineNumbers |-> TRUE, rgPath |-> NoPath,
   stdout |-> NoText, stderr |-> NoText, message |-> NoText,
   reports |-> <<>>]

Return(c, v) == [c EXCEPT !.pc = "done", !.ret = v]
Throw(c, e) == [c EXCEPT !.pc = "done", !.err = e]

\* a validatePath that checks the path as written, ".." segments and all
validatePathEntry_Unresolved(c, dirs) ==
  LET expanded == expandHome(c.requestedPath)
      absolute == ResolveAbsolute(expanded)
      written == IF expanded.kind = "abs" THEN expanded.segs ELSE Cwd \o expanded.segs
      c1 == [c EXCEPT !.absolute = absolute]
  IN IF ~isPathWithinAllowedDirectories(PathStr(written), dirs)
       THEN Throw(c1, ErrPathOutside)
       ELSE [c1 EXCEPT !.pc = "realpath"]

\* validatePath up to its first await: expand, resolve, normalize, check
validatePathEntry(c, dirs) ==
  LET absolute == ResolveAbsolute(expandHome(c.requestedPath))
      c1 == [c EXCEPT !.absolute = absolute]
  IN IF ~isPathWithinAllowedDirectories(normalizePath(absolute), dirs)
       THEN Throw(c1, ErrPathOutside)
       ELSE [c1 EXCEPT !.pc = "realpath"]

\* a catch that takes every error for "not found" and goes on to the parent
validatePathRealpath_CatchAll(c, dirs, fsys) ==
  LET r == Realpath(fsys, c.absolute)
      c1 == [c EXCEPT !.fsCalls = @ + 1]
  IN IF r.ok
       THEN LET c2 == [c1 EXCEPT !.realPath = r.path]
            IN IF ~isPathWithinAllowedDirectories(normalizePath(r.path), dirs)
                 THEN [c2 EXCEPT !.pc = "realpathParent"]
                 ELSE Return(c2, r.path)
       ELSE [c1 EXCEPT !.pc = "realpathParent"]

\* a validatePath that returns the real path without checking it again
validatePathRealpath_NoRecheck(c, dirs, fsys) ==
  LET r == Realpath(fsys, c.absolute)
      c1 == [c EXCEPT !.fsCalls = @ + 1]
  IN IF r.ok
       THEN Return([c1 EXCEPT !.realPath = r.path], r.path)
       ELSE IF r.code = "ENOENT"
         THEN [c1 EXCEPT !.pc = "realpathParent"]
         ELSE Throw(c1, r.code)

\* fs.realpath(absolute) settles: the re-check of the real path, or the catch
validatePathRealpath(c, dirs, fsys) ==
  LET r == Realpath(fsys, c.absolute)
      c1 == [c EXCEPT !.fsCalls = @ + 1]
  IN IF r.ok
       THEN LET c2 == [c1 EXCEPT !.realPath = r.path]
            IN IF ~isPathWithinAllowedDirectories(normalizePath(r.path), dirs)
                 THEN Throw(c2, ErrSymlinkOutside)
                 ELSE Return(c2, r.path)
       ELSE IF r.code = "ENOENT"
         THEN [c1 EXCEPT !.pc = "realpathParent"]
         ELSE Throw(c1, r.code)

\* a validatePath that returns the parent's real path joined with the name
validatePathParent_Joined(c, dirs, fsys) ==
  LET parentDir == Dirname(c.absolute)
      r == Realpath(fsys, parentDir)
      c1 == [c EXCEPT !.fsCalls = @ + 1]
  IN IF r.ok
       THEN LET c2 == [c1 EXCEPT !.realParentPath = r.path]
            IN IF ~isPathWithinAllowedDirectories(normalizePath(r.path), dirs)
                 THEN Throw(c2, ErrParentMissing)
                 ELSE Return(c2, Append(r.path, Basename(c.absolute)))
       ELSE Throw(c1, ErrParentMissing)

\* fs.realpath(parentDir) settles: every throw of the inner try, the
\* parent-outside one included, is caught and replaced
validatePathParent(c, dirs, fsys) ==
  LET parentDir == Dirname(c.absolute)
      r == Realpath(fsys, parentDir)
      c1 == [c EXCEPT !.fsCalls = @ + 1]
  IN IF r.ok
       THEN LET c2 == [c1 EXCEPT !.realParentPath = r.path]
            IN IF ~isPathWithinAllowedDirectories(normalizePath(r.path), dirs)
                 THEN Throw(c2, ErrParentMissing)
                 ELSE Return(c2, c.absolute)
       ELSE Throw(c1, ErrParentMissing)

(***************************************************************************)
(* File system calls of the writer.  A step result is the call record and  *)
(* the file system after the step.                                         *)
(***************************************************************************)
Step(c, fsys) == [call |-> c, fs |-> fsys]

Touch(c, path) == [c EXCEPT !.fsCalls = @ + 1, !.touched = @ \cup {path}]

\* the directory entry a path names, symbolic links followed in every
\* component but the last
Phys(fsys, path) ==
  LET r == Realpath(fsys, Dirname(path))
  IN IF ~r.ok THEN r
     ELSE IF Node(fsys, r.path).kind # "dir"
       THEN [ok |-> FALSE, path |-> NoPath, code |-> "ENOTDIR"]
       ELSE [ok |-> TRUE, path |-> Append(r.path, Basename(path)), code |-> "OK"]

\* `${filePath}.${randomBytes(16).toString('hex')}.tmp`: a fresh sibling name
TempPath(filePath, p) ==
  Append(Dirname(filePath), Basename(filePath) \o <<".", Tag(p), ".tmp">>)

Min(a, b) == IF a < b THEN a ELSE b

\* the data of the open descriptor of client p reaches its file, if the
\* file still has a directory entry
WriteThrough(fsys, p, text) ==
  [q \in DOMAIN fsys |->
     IF fsys[q].kind = "file" /\ fsys[q].ino = p
       THEN [fsys[q] EXCEPT !.content = @ \o text]
       ELSE fsys[q]]

CloseFile(fsys, p) ==
  [q \in DOMAIN fsys |->
     IF fsys[q].kind = "file" /\ fsys[q].ino = p
       THEN [fsys[q] EXCEPT !.ino = 0]
       ELSE fsys[q]]

\* an open with flag 'w' that follows a symbolic link at the path and
\* truncates or creates the file behind it
wxOpen_NotExclusive(p, c, fsys) ==
  LET r == Phys(fsys, c.filePath)
      c1 == Touch(c, c.filePath)
      n == IF r.ok THEN Node(fsys, r.path) ELSE NoNode
      at == IF n.kind = "link" THEN n.target ELSE r.path
  IN IF ~r.ok THEN Step(Throw(c1, r.code), fsys)
     ELSE IF Node(fsys, at).kind = "dir"
       THEN Step(Throw(c1, "EISDIR"), fsys)
       ELSE Step([c1 EXCEPT !.pc = "wxData", !.written = 0],
                 Put(fsys, at, FileNode(<<>>, p)))

\* writeFileContent, fs.writeFile(filePath, content, {flag: 'wx'}): the open.
\* Any entry at the path, a symbolic link included, gives EEXIST, and the
\* catch goes on to the temp file; another error is rethrown.
wxOpen(p, c, fsys) ==
  LET r == Phys(fsys, c.filePath)
      c1 == Touch(c, c.filePath)
      n == IF r.ok THEN Node(fsys, r.path) ELSE NoNode
  IN IF ~r.ok THEN Step(Throw(c1, r.code), fsys)
     ELSE IF n.kind # "none"
       THEN Step([c1 EXCEPT !.pc = "tmpOpen",
                            !.tempPath = TempPath(c.filePath, p),
                            !.linkSeen = IF n.kind = "link" THEN n.target ELSE NoPath],
                 fsys)
       ELSE Step([c1 EXCEPT !.pc = "wxData", !.written = 0],
                 Put(fsys, r.path, FileNode(<<>>, p)))

\* fs.writeFile after its open: the next characters, then the close
writeData(p, c, fsys) ==
  IF c.written < Len(c.content)
    THEN LET n == Min(WriteChunk, Len(c.content) - c.written)
         IN Step([c EXCEPT !.written = @ + n],
                 WriteThrough(fsys, p, SubSeq(c.content, c.written + 1, c.written + n)))
    ELSE Step(IF c.pc = "wxData" THEN Return(c, c.ret) ELSE [c EXCEPT !.pc = "rename"],
              CloseFile(fsys, p))

\* a writer that opens the target itself, truncating it, in place of a temp file
tmpOpen_InPlace(p, c, fsys) ==
  LET r == Phys(fsys, c.filePath)
      c1 == Touch(c, c.filePath)
  IN IF ~r.ok \/ Node(fsys, r.path).kind \notin {"none", "file"}
       THEN Step([c1 EXCEPT !.pc = "unlink", !.pendingErr = "EISDIR"], fsys)
       ELSE Step([c1 EXCEPT !.pc = "tmpData", !.written = 0, !.tempPath = c.filePath],
                 Put(fsys, r.path, FileNode(<<>>, p)))

\* fs.writeFile(tempPath, content, 'utf-8'): the open, creating or truncating
tmpOpen(p, c, fsys) ==
  LET r == Phys(fsys, c.tempPath)
      c1 == Touch(c, c.tempPath)
  IN IF ~r.ok
       THEN Step([c1 EXCEPT !.pc = "unlink", !.pendingErr = r.code], fsys)
       ELSE IF Node(fsys, r.path).kind \notin {"none", "file"}
         THEN Step([c1 EXCEPT !.pc = "unlink", !.pendingErr = "EISDIR"], fsys)
         ELSE Step([c1 EXCEPT !.pc = "tmpData", !.written = 0],
                   Put(fsys, r.path, FileNode(<<>>, p)))

\* fs.rename(tempPath, filePath): the entry at filePath, a symbolic link
\* included, is replaced by the temp file; a directory there fails the rename
rename(p, c, fsys) ==
  LET src == Phys(fsys, c.tempPath)
      dst == Phys(fsys, c.filePath)
      c1 == Touch(Touch(c, c.tempPath), c.filePath)
  IN IF ~src.ok \/ ~dst.ok
       THEN Step([c1 EXCEPT !.pc = "unlink", !.pendingErr = "ENOENT"], fsys)
     ELSE IF Node(fsys, src.path).kind = "none"
       THEN Step([c1 EXCEPT !.pc = "unlink", !.pendingErr = "ENOENT"], fsys)
     ELSE IF Node(fsys, dst.path).kind = "dir"
       THEN Step([c1 EXCEPT !.pc = "unlink", !.pendingErr = "EISDIR"], fsys)
     ELSE IF src.path = dst.path
       THEN Step(Return(c1, c.ret), fsys)
     ELSE Step(Return(c1, c.ret),
               Put(Del(fsys, src.path), dst.path, Node(fsys, src.path)))

\* a catch that throws the error again and leaves the temp file
unlink_Leave(p, c, fsys) ==
  Step(Throw(c, c.pendingErr), fsys)

\* catch (renameError): fs.unlink(tempPath), its own failure ignored, then
\* the error is thrown again
unlink(p, c, fsys) ==
  LET r == Phys(fsys, c.tempPath)
      c1 == Touch(c, c.tempPath)
  IN IF r.ok /\ Node(fsys, r.path).kind \in {"file", "link"}
       THEN Step(Throw(c1, c.pendingErr), Del(fsys, r.path))
       ELSE Step(Throw(c1, c.pendingErr), fsys)

\* readFileContent, fs.readFile(filePath): symbolic links followed
readFile(c, fsys) ==
  LET r == Realpath(fsys, c.filePath)
      c1 == Touch(c, c.filePath)
  IN IF ~r.ok THEN Throw(c1, r.code)
     ELSE IF Node(fsys, r.path).kind # "file" THEN Throw(c1, "EISDIR")
     ELSE Return([c1 EXCEPT !.data = Node(fsys, r.path).content], c.ret)

\* String.prototype.lastIndexOf, 0-based, -1 when absent
LastIndexOf(text, sub) ==
  LET at == {i \in 0..(Len(text) - Len(sub)) : SubSeq(text, i + 1, i + Len(sub)) = sub}
  IN IF at = {} THEN -1 ELSE CHOOSE i \in at : \A k \in at : i >= k

\* the two bytes of a character that UTF-8 writes in two bytes, the character
\* itself, and the replacement character a decoder gives for a byte that
\* is no whole character
LeadByte == "C3"
ContByte == "A9"
TwoByteChar == "C3A9"
ReplacementChar == "FFFD"

RECURSIVE Decode(_)
\* chunk.slice(0, bytesRead).toString('utf-8'): a lead byte with its
\* continuation byte is one character; either byte alone is replaced
Decode(bytes) ==
  IF bytes = <<>> THEN <<>>
  ELSE IF bytes[1] = LeadByte
    THEN IF Len(bytes) >= 2 /\ bytes[2] = ContByte
           THEN <<TwoByteChar>> \o Decode(SubSeq(bytes, 3, Len(bytes)))
           ELSE <<ReplacementChar>> \o Decode(Tail(bytes))
  ELSE IF bytes[1] = ContByte
    THEN <<ReplacementChar>> \o Decode(Tail(bytes))
  ELSE <<bytes[1]>> \o Decode(Tail(bytes))

\* the bytes fileHandle.read gets at a position of the open file
ReadAt(fdData, position, size) ==
  SubSeq(fdData, position + 1, Min(position + size, Len(fdData)))

\* fs.stat(filePath) of tailFile settles: the size, and '' for an empty file
tailFileStat(c, fsys) ==
  LET r == Realpath(fsys, c.filePath)
      c1 == Touch(c, c.filePath)
  IN IF ~r.ok THEN Throw(c1, r.code)
     ELSE IF Node(fsys, r.path).kind # "file" THEN Throw(c1, "EISDIR")
     ELSE LET size == Len(Node(fsys, r.path).content)
          IN IF size = 0 THEN Return([c1 EXCEPT !.text = <<>>], c.ret)
             ELSE [c1 EXCEPT !.fileSize = size, !.pc = "tailOpen"]

\* fs.open(filePath, 'r') settles: the descriptor keeps the file it opened,
\* which the model takes not to be written while it is read
openRead(c, fsys) ==
  LET r == Realpath(fsys, c.filePath)
      c1 == Touch(c, c.filePath)
  IN IF ~r.ok THEN Throw(c1, r.code)
     ELSE IF Node(fsys, r.path).kind # "file" THEN Throw(c1, "EISDIR")
     ELSE [c1 EXCEPT !.fdData = Node(fsys, r.path).content,
                     !.position = c.fileSize,
                     !.pc = IF c.inner = "tailFile" THEN "tailRead" ELSE "headRead"]

RECURSIVE TakeFromEnd(_, _, _, _)
\* for (i = chunkLines.length - 1; i >= 0 && linesFound < numLines; i--)
\*   lines.unshift(chunkLines[i]), linesFound++
TakeFromEnd(chunkLines, lines, linesFound, numLines) ==
  IF chunkLines = <<>> \/ linesFound >= numLines
    THEN [lines |-> lines, linesFound |-> linesFound]
    ELSE TakeFromEnd(SubSeq(chunkLines, 1, Len(chunkLines) - 1),
                     <<chunkLines[Len(chunkLines)]>> \o lines,
                     linesFound + 1, numLines)

\* one turn of the loop of tailFile: the loop test, then a chunk read
\* backward from the end, the partial first line kept for the next chunk
tailFileRead(c) ==
  IF ~(c.position > 0 /\ c.linesFound < c.numLines)
    THEN [c EXCEPT !.pc = "close", !.text = JoinLines(c.lines)]
    ELSE LET size == Min(CHUNK_SIZE, c.position)
             position == c.position - size
             readData == ReadAt(c.fdData, position, size)
             c1 == [Touch(c, c.filePath) EXCEPT !.position = position]
         IN IF Len(readData) = 0
              THEN [c1 EXCEPT !.pc = "close", !.text = JoinLines(c.lines)]
              ELSE LET chunkText == Decode(readData) \o c.remainingText
                       split == SplitLines(normalizeLineEndings(chunkText))
                       chunkLines == IF position > 0 THEN Tail(split) ELSE split
                       took == TakeFromEnd(chunkLines, c.lines, c.linesFound, c.numLines)
                   IN [c1 EXCEPT !.remainingText =
                                    IF position > 0 THEN split[1] ELSE c.remainingText,
                                 !.lines = took.lines,
                                 !.linesFound = took.linesFound]

RECURSIVE PushLines(_, _, _)
\* for (const line of completeLines) { lines.push(line); if (lines.length >= numLines) break }
PushLines(completeLines, lines, numLines) ==
  IF completeLines = <<>> THEN lines
  ELSE LET next == Append(lines, Head(completeLines))
       IN IF Len(next) >= numLines THEN next
          ELSE PushLines(Tail(completeLines), next, numLines)

\* what headFile does after its loop: the leftover text, then the join
headFileEnd(c, lines, buffer) ==
  [c EXCEPT !.pc = "close", !.lines = lines, !.buffer = buffer,
            !.text = JoinLines(IF Len(buffer) > 0 /\ Len(lines) < c.numLines
                                 THEN Append(lines, buffer) ELSE lines)]

\* one turn of the loop of headFile: the loop test, then a chunk read
\* forward, the lines complete so far pushed
headFileRead(c) ==
  IF ~(Len(c.lines) < c.numLines)
    THEN headFileEnd(c, c.lines, c.buffer)
    ELSE LET readData == ReadAt(c.fdData, c.bytesRead, CHUNK_SIZE)
             c1 == Touch(c, c.filePath)
         IN IF Len(readData) = 0
              THEN headFileEnd(c1, c.lines, c.buffer)
              ELSE LET buffer == c.buffer \o Decode(readData)
                       newLineIndex == LastIndexOf(buffer, <<"\n">>)
                   IN IF newLineIndex # -1
                        THEN [c1 EXCEPT
                                !.bytesRead = @ + Len(readData),
                                !.buffer = SubSeq(buffer, newLineIndex + 2, Len(buffer)),
                                !.lines = PushLines(
                                            SplitLines(SubSeq(buffer, 1, newLineIndex)),
                                            c.lines, c.numLines)]
                        ELSE [c1 EXCEPT !.bytesRead = @ + Len(readData),
                                        !.buffer = buffer]

\* finally { await fileHandle.close() }, then the return
closeRead(c) ==
  Return([c EXCEPT !.fsCalls = @ + 1], c.ret)

\* createUnifiedDiff(content, modifiedContent, filePath) inside its fence:
\* kept as the two texts the diff is computed from
FormattedDiff(content, modifiedContent) ==
  <<content, modifiedContent>>

\* an applyFileEdits that goes on to the temp file whatever dryRun says
applyFileEditsRead_AlwaysWrite(p, c, fsys) ==
  LET r == Realpath(fsys, c.filePath)
      c1 == Touch(c, c.filePath)
  IN IF ~r.ok THEN Throw(c1, r.code)
     ELSE IF Node(fsys, r.path).kind # "file" THEN Throw(c1, "EISDIR")
     ELSE LET content == normalizeLineEndings(Node(fsys, r.path).content)
              e == applyEdits(content, c.edits)
              c2 == [c1 EXCEPT !.raw = Node(fsys, r.path).content, !.original = content]
          IN IF ~e.ok
               THEN Throw([c2 EXCEPT !.errText = e.oldText], ErrNoMatch)
               ELSE [c2 EXCEPT !.modified = e.text,
                               !.diff = FormattedDiff(content, e.text),
                               !.pc = "tmpOpen", !.content = e.text,
                               !.tempPath = TempPath(c.filePath, p)]

\* applyFileEdits once fs.readFile settles: normalize, run the edits, make
\* the diff, and either return it (dry run) or go on to the temp file
applyFileEditsRead(p, c, fsys) ==
  LET r == Realpath(fsys, c.filePath)
      c1 == Touch(c, c.filePath)
  IN IF ~r.ok THEN Throw(c1, r.code)
     ELSE IF Node(fsys, r.path).kind # "file" THEN Throw(c1, "EISDIR")
     ELSE LET content == normalizeLineEndings(Node(fsys, r.path).content)
              e == applyEdits(content, c.edits)
              c2 == [c1 EXCEPT !.raw = Node(fsys, r.path).content, !.original = content]
          IN IF ~e.ok
               THEN Throw([c2 EXCEPT !.errText = e.oldText], ErrNoMatch)
               ELSE LET c3 == [c2 EXCEPT !.modified = e.text,
                                         !.diff = FormattedDiff(content, e.text)]
                    IN IF c.dryRun THEN Return(c3, c.ret)
                       ELSE [c3 EXCEPT !.pc = "tmpOpen", !.content = e.text,
                                       !.tempPath = TempPath(c.filePath, p)]

\* validatePath(path) within a search: its parts one after the other
validatePathWhole(path, dirs, fsys) ==
  LET c0 == validatePathEntry(
              [Idle EXCEPT !.requestedPath = [kind |-> "abs", segs |-> path]], dirs)
      c1 == IF c0.pc = "realpath" THEN validatePathRealpath(c0, dirs, fsys) ELSE c0
  IN IF c1.pc = "realpathParent" THEN validatePathParent(c1, dirs, fsys) ELSE c1

IsDigit(ch) == ch \in {"0", "1", "2", "3", "4", "5", "6", "7", "8", "9"}

\* parseInt(lineNum, 10) as it is printed again: no leading zeros
RECURSIVE ParseInt(_)
ParseInt(digits) ==
  IF Len(digits) > 1 /\ digits[1] = "0" THEN ParseInt(Tail(digits)) ELSE digits

\* line.match(/^(.+?):(\d+):(.*)$/): the first colon, not at the start, that
\* digits and a colon follow
ParseLine(line) ==
  LET DigitsTo(i, j) == j > i + 1 /\ line[j] = ":"
                        /\ \A k \in (i + 1)..(j - 1) : IsDigit(line[k])
      at == {i \in 2..Len(line) :
               line[i] = ":" /\ \E j \in (i + 2)..Len(line) : DigitsTo(i, j)}
  IN IF at = {} THEN [ok |-> FALSE, filePath |-> <<>>, lineNumber |-> <<>>,
                      content |-> <<>>]
     ELSE LET i == CHOOSE x \in at : \A y \in at : x <= y
              j == CHOOSE x \in (i + 2)..Len(line) : DigitsTo(i, x)
          IN [ok |-> TRUE, filePath |-> SubSeq(line, 1, i - 1),
              lineNumber |-> ParseInt(SubSeq(line, i + 1, j - 1)),
              content |-> SubSeq(line, j + 1, Len(line))]

\* fileResults.get(filePath).push(...), with a new list for a new file
AddMatch(fileResults, m) ==
  IF \E k \in 1..Len(fileResults) : fileResults[k].filePath = m.filePath
    THEN [k \in 1..Len(fileResults) |->
            IF fileResults[k].filePath = m.filePath
              THEN [fileResults[k] EXCEPT !.matches = Append(@, m)]
              ELSE fileResults[k]]
    ELSE Append(fileResults, [filePath |-> m.filePath, matches |-> <<m>>])

\* the loop over the lines of stdout: blank lines and "---" are passed
\* over, a line of the form path:number:content joins the list of its file
RECURSIVE GroupByFile(_, _)
GroupByFile(lines, fileResults) ==
  IF lines = <<>> THEN fileResults
  ELSE LET line == Head(lines)
           m == ParseLine(line)
       IN IF Trim(line) = <<>> \/ Trim(line) = <<"-", "-", "-">> \/ ~m.ok
            THEN GroupByFile(Tail(lines), fileResults)
            ELSE GroupByFile(Tail(lines), AddMatch(fileResults, m))

\* the lines of a report, for the matches of one file
RECURSIVE ReportLines(_, _)
ReportLines(matches, includeLineNumbers) ==
  IF matches = <<>> THEN <<>>
  ELSE (IF includeLineNumbers
          THEN <<" ", " ", "Line", " ">> \o Head(matches).lineNumber \o <<":", " ">>
          ELSE <<" ", " ">>)
       \o Head(matches).content \o <<"\n">>
       \o ReportLines(Tail(matches), includeLineNumbers)

\* the loop over the files: each file gives what is left of maxResults
RECURSIVE FormatResults(_, _, _, _)
FormatResults(fileResults, totalMatches, maxResults, includeLineNumbers) ==
  IF fileResults = <<>> \/ totalMatches >= maxResults THEN <<>>
  ELSE LET matches == Head(fileResults).matches
           matchesToInclude == SubSeq(matches, 1, Min(Len(matches), maxResults - totalMatches))
           fileResult == <<"File:", " ">> \o Head(fileResults).filePath \o <<"\n">>
                         \o ReportLines(matchesToInclude, includeLineNumbers)
       IN (IF Len(matchesToInclude) > 0 THEN <<Trim(fileResult)>> ELSE <<>>)
          \o FormatResults(Tail(fileResults), totalMatches + Len(matchesToInclude),
                           maxResults, includeLineNumbers)

\* a catch that takes every failure of ripgrep for "no matches"
rgCatch_AllNoMatches(c, error) ==
  [c EXCEPT !.pc = "done", !.reports = <<>>]

\* the catch of searchFileContents
rgCatch(c, error) ==
  IF error.code = "ENOENT" THEN Throw(c, ErrRgMissing)
  ELSE IF error.code = "1" THEN [c EXCEPT !.pc = "done", !.reports = <<>>]
  ELSE Throw([c EXCEPT !.errText = IF error.message # <<>>
                                     THEN error.message
                                     ELSE <<"Error">>],
             ErrRgFailed)

\* the ripgrep run fails: the error carries a code and a message
rgFailed(c, error) ==
  rgCatch([c EXCEPT !.exit = error.code, !.message = error.message], error)

\* ripgrep ends with status 0: its output is parsed and formatted
rgSucceeded(c, stdout, stderr) ==
  LET c1 == [c EXCEPT !.exit = "0", !.stdout = stdout, !.stderr = stderr]
  IN IF stderr # <<>> /\ ~Includes(stderr, <<"No matches found">>) /\ stdout = <<>>
       THEN rgCatch(c1, [code |-> "undefined",
                         message |-> <<"ripgrep error: ">> \o stderr])
     ELSE IF Trim(stdout) = <<>>
       THEN [c1 EXCEPT !.pc = "done", !.reports = <<>>]
     ELSE [c1 EXCEPT !.pc = "done",
                     !.reports = FormatResults(GroupByFile(SplitLines(stdout), <<>>),
                                               0, c.maxResults, c.includeLineNumbers)]

\* searchFileContents up to the ripgrep run: the search path is validated
\* and is what ripgrep is given
searchFileContentsEntry(c, dirs, fsys) ==
  LET v == validatePathWhole(c.requestedPath.segs, dirs, fsys)
  IN IF v.err # NoErr THEN Throw(c, v.err)
     ELSE [c EXCEPT !.pc = "rg", !.rgPath = v.ret]

RECURSIVE Listing(_)
\* the members of a set in the order a listing gives them
Listing(S) ==
  IF S = {} THEN <<>>
  ELSE LET x == CHOOSE y \in S : TRUE
       IN <<x>> \o Listing(S \ {x})

\* the paths of an index that reflects the tree
IndexPaths(fsys) == DOMAIN fsys \cup TopDirs

\* the standard output of plocate --database db --limit 10000 PATTERN
plocateStdout(fsys, searchPattern) ==
  Listing({q \in IndexPaths(fsys) : plocateMatches(PathStr(q), searchPattern)})

\* fs.readdir(currentPath, { withFileTypes: true })
Readdir(fsys, currentPath) ==
  LET r == Realpath(fsys, currentPath)
  IN IF ~r.ok THEN [ok |-> FALSE, code |-> r.code, entries |-> <<>>]
     ELSE IF Node(fsys, r.path).kind # "dir"
       THEN [ok |-> FALSE, code |-> "ENOTDIR", entries |-> <<>>]
     ELSE [ok |-> TRUE, code |-> "OK",
           entries |-> Listing({[name |-> Basename(q),
                                 isDirectory |-> Node(fsys, q).kind = "dir"] :
                                  q \in {x \in IndexPaths(fsys) : Dirname(x) = r.path}})]

\* excludePatterns.some(p => minimatch(relativePath, p, { dot: true }))
shouldExclude(relativePath, excludePatterns) ==
  \E i \in 1..Len(excludePatterns) : minimatch(relativePath, excludePatterns[i])

\* the fallback: search(rootPath) begins with its readdir
searchFallback(c) ==
  [c EXCEPT !.pc = "readdir", !.currentPath = c.rootPath]

\* searchFilesWithValidation after isPlocateAvailable: the pattern is
\* prepared and plocate is run with it, or the fallback begins
searchAfterAvailable(c, usePlocate) ==
  LET plocatePattern == preparePatternForPlocate(c.pattern)
      c1 == [c EXCEPT !.usePlocate = usePlocate]
  IN IF usePlocate /\ plocatePattern # NoPattern
       THEN [c1 EXCEPT !.pc = "plocate", !.plocateArgs = Append(@, plocatePattern)]
       ELSE searchFallback(c1)

\* isPlocateAvailable: fs.access(plocateDb) settles
isPlocateAvailableAccess(c, ok) ==
  IF ok THEN [c EXCEPT !.pc = "version"] ELSE searchAfterAvailable(c, FALSE)

\* isPlocateAvailable: plocate --version settles
isPlocateAvailableVersion(c, ok) ==
  searchAfterAvailable(c, ok)

\* plocate ends with status 0: its output is split into paths
plocateSucceeded(c, fsys) ==
  [c EXCEPT !.pc = "filter", !.exit = "0",
            !.allPaths = plocateStdout(fsys, c.plocateArgs[Len(c.plocateArgs)])]

\* a catch that takes every failure of plocate for "no matches"
plocateFailed_AllNoMatches(c, code) ==
  [c EXCEPT !.exit = code, !.pc = "done", !.found = <<>>]

\* a catch that falls back on every failure of plocate, exit code 1 included
plocateFailed_AlwaysFallback(c, code) ==
  searchFallback([c EXCEPT !.exit = code])

\* a catch that, after a timeout, waits for plocate to print its paths
plocateFailed_WaitOn(c, code) ==
  IF code = "1"
    THEN [c EXCEPT !.exit = code, !.pc = "done", !.found = <<>>]
  ELSE IF code = "ETIMEDOUT" THEN [c EXCEPT !.exit = code, !.pc = "stdout"]
  ELSE searchFallback([c EXCEPT !.exit = code])

\* the catch of the plocate run: exit code 1 is "no matches", every other
\* failure is logged and the fallback begins
plocateFailed(c, code) ==
  IF code = "1"
    THEN [c EXCEPT !.exit = code, !.pc = "done", !.found = <<>>]
    ELSE searchFallback([c EXCEPT !.exit = code])

\* a filter that keeps every path the root's text is a prefix of
searchFilter_TextPrefix(c, dirs, fsys) ==
  IF c.allPaths = <<>> THEN [c EXCEPT !.pc = "done", !.found = c.results]
  ELSE LET filePath == Head(c.allPaths)
           rest == [c EXCEPT !.allPaths = Tail(@)]
       IN IF ~StartsWith(normalizePath(filePath), normalizePath(c.rootPath)) THEN rest
          ELSE IF validatePathWhole(filePath, dirs, fsys).err # NoErr THEN rest
          ELSE IF shouldExclude(Relative(c.rootPath, filePath), c.excludePatterns)
            THEN rest
          ELSE [rest EXCEPT !.results = Append(@, filePath)]

\* one turn of the loop over the paths plocate printed, and the return
searchFilter(c, dirs, fsys) ==
  IF c.allPaths = <<>> THEN [c EXCEPT !.pc = "done", !.found = c.results]
  ELSE LET filePath == Head(c.allPaths)
           rest == [c EXCEPT !.allPaths = Tail(@)]
           normalizedPath == normalizePath(filePath)
           normalizedRoot == normalizePath(c.rootPath)
           rootPathWithSlash == IF normalizedRoot[Len(normalizedRoot)] = "/"
                                  THEN normalizedRoot
                                  ELSE normalizedRoot \o <<"/">>
       IN IF normalizedPath # normalizedRoot
             /\ ~StartsWith(normalizedPath, rootPathWithSlash) THEN rest
          ELSE IF validatePathWhole(filePath, dirs, fsys).err # NoErr THEN rest
          ELSE IF shouldExclude(Relative(c.rootPath, filePath), c.excludePatterns)
            THEN rest
          ELSE [rest EXCEPT !.results = Append(@, filePath)]

\* a search that lets the failure of a listing below the root end the call
searchReaddirSettled_Abort(c, r) ==
  LET c1 == [c EXCEPT !.readdirs = @ + 1]
  IN IF r.ok
       THEN [c1 EXCEPT !.pc = "walk",
                       !.listed = Append(@, c.currentPath),
                       !.stack = <<[dir |-> c.currentPath, entries |-> r.entries]>> \o @]
       ELSE Throw([c1 EXCEPT !.unread = @ \cup {c.currentPath}], r.code)

\* search(currentPath) with its fs.readdir settled as r: a failure below the
\* root is caught by the loop that made the call.  The model notes the
\* directories listed and those whose listing failed.
searchReaddirSettled(c, r) ==
  LET c1 == [c EXCEPT !.readdirs = @ + 1]
  IN IF r.ok
       THEN [c1 EXCEPT !.pc = "walk",
                       !.listed = Append(@, c.currentPath),
                       !.stack = <<[dir |-> c.currentPath, entries |-> r.entries]>> \o @]
     ELSE IF c.stack = <<>> THEN Throw(c1, r.code)
     ELSE [c1 EXCEPT !.pc = "walk", !.unread = @ \cup {c.currentPath}]

\* search(currentPath): its fs.readdir settles on the tree
searchReaddir(c, fsys) ==
  searchReaddirSettled(c, Readdir(fsys, c.currentPath))

\* a loop that does not go on to the next entry after an excluded one
searchEntry_StuckOnExcluded(c, dirs, fsys) ==
  LET frame == Head(c.stack)
  IN IF frame.entries = <<>>
       THEN IF Len(c.stack) = 1
              THEN [c EXCEPT !.stack = <<>>, !.pc = "done", !.found = c.results]
              ELSE [c EXCEPT !.stack = Tail(@)]
       ELSE LET entry == Head(frame.entries)
                fullPath == Append(frame.dir, entry.name)
                relativePath == Relative(c.rootPath, fullPath)
                rest == [c EXCEPT !.stack[1].entries = Tail(@)]
                pushed == IF minimatch(relativePath, c.pattern)
                            THEN [rest EXCEPT !.results = Append(@, fullPath)]
                            ELSE rest
            IN IF validatePathWhole(fullPath, dirs, fsys).err # NoErr THEN rest
               ELSE IF shouldExclude(relativePath, c.excludePatterns) THEN c
               ELSE IF entry.isDirectory
                 THEN [pushed EXCEPT !.pc = "readdir", !.currentPath = fullPath]
               ELSE pushed

\* search(currentPath): one turn of the loop over the entries, or the
\* return of the innermost search
searchEntry(c, dirs, fsys) ==
  LET frame == Head(c.stack)
  IN IF frame.entries = <<>>
       THEN IF Len(c.stack) = 1
              THEN [c EXCEPT !.stack = <<>>, !.pc = "done", !.found = c.results]
              ELSE [c EXCEPT !.stack = Tail(@)]
       ELSE LET entry == Head(frame.entries)
                fullPath == Append(frame.dir, entry.name)
                relativePath == Relative(c.rootPath, fullPath)
                rest == [c EXCEPT !.stack[1].entries = Tail(@)]
                pushed == IF minimatch(relativePath, c.pattern)
                            THEN [rest EXCEPT !.results = Append(@, fullPath)]
                            ELSE rest
            IN IF validatePathWhole(fullPath, dirs, fsys).err # NoErr THEN rest
               ELSE IF shouldExclude(relativePath, c.excludePatterns) THEN rest
               ELSE IF entry.isDirectory
                 THEN [pushed EXCEPT !.pc = "readdir", !.currentPath = fullPath]
               ELSE pushed

\* the first step of each function a call runs
EntryPc(inner) ==
  CASE inner = "writeFileContent" -> "wx"
    [] inner = "readFileContent" -> "read"
    [] inner = "applyFileEdits" -> "editRead"
    [] inner = "tailFile" -> "tailStat"
    [] inner = "headFile" -> "headOpen"
    [] OTHER -> "done"

\* what the caller of validatePath does with its outcome: a bare
\* validatePath call ends; a tool handler passes the returned path on to
\* the function it serves, or ends with validatePath's error
AfterValidate(c) ==
  IF c.pc = "done" /\ c.inner # "none" /\ c.err = NoErr
    THEN [c EXCEPT !.pc = EntryPc(c.inner), !.filePath = c.ret, !.validated = TRUE]
    ELSE c

(***************************************************************************)
(* Inputs.                                                                 *)
(***************************************************************************)
SeqsUpTo(S, n) == UNION {[1..k -> S] : k \in 0..n}

ReqNames == {nA, nA2, nE, nF, DotDot}
Requests == [kind : {"abs", "home", "rel"}, segs : SeqsUpTo(ReqNames, MaxReqLen)]

AllowedChoices ==
  {D \in SUBSET {PathStr(d) : d \in TopDirs} : Cardinality(D) <= MaxAllowed}

OldContent == <<"o", "o">>
WriteContents == {<<"x", "y">>, <<"u", "v">>}

Docs ==
  { <<"a", "\n", "b">>,
    <<" ", "a", "\n", " ", "b">>,
    <<"a", "\r", "\n", "b">>,
    <<"a", "\n", "a">>,
    <<"a", "\r", "\r", "\n", "b">> }

EditChoices ==
  { [oldText |-> <<"a">>, newText |-> <<"c">>],
    [oldText |-> <<"a", "\n", " ", " ", "b">>, newText |-> <<"c", "\n", "d">>],
    [oldText |-> <<"c">>, newText |-> <<"b">>],
    [oldText |-> <<"z", "\r", "\n">>, newText |-> <<>>],
    [oldText |-> <<"a">>, newText |-> <<"$", "$">>],
    [oldText |-> <<"a", " ">>, newText |-> <<" ", "c">>] }

EditSeqs == SeqsUpTo(EditChoices, MaxEdits)

Target == <<nA, nF>>
Outside == <<nE, nF>>
LinkTargets == {<<nE>>, Outside}

AllIdle == \A p \in Clients : calls[p].pc = "idle"
Quiet == [p \in Clients |-> Idle]

(***************************************************************************)
(* Actions.                                                                *)
(***************************************************************************)
\* lib.ts:14 setAllowedDirectories
SetAllowedDirectories(dirs) ==
  /\ allowedDirectories' = dirs
  /\ UNCHANGED <<fs, calls, lastCommit>>

\* another party plants a symbolic link at the target path
EnvSymlink(t) ==
  /\ Node(fs, Target).kind # "link" \/ Node(fs, Target).target # t
  /\ fs' = Put(fs, Target, LinkNode(t))
  /\ UNCHANGED <<allowedDirectories, calls, lastCommit>>

\* another party makes a directory at the target path
EnvMkdir ==
  /\ Node(fs, Target).kind # "dir"
  /\ fs' = Put(fs, Target, DirNode)
  /\ UNCHANGED <<allowedDirectories, calls, lastCommit>>

\* another party creates a file, in or outside the allowed directories
EnvCreate(p, text) ==
  /\ Node(fs, p).kind = "none"
  /\ fs' = Put(fs, p, FileNode(text, 0))
  /\ UNCHANGED <<allowedDirectories, calls, lastCommit>>

\* another party removes an entry
EnvRemove(p) ==
  /\ Node(fs, p).kind # "none"
  /\ fs' = Del(fs, p)
  /\ UNCHANGED <<allowedDirectories, calls, lastCommit>>

\* a client calls validatePath(requestedPath)
CallValidatePath(p, req) ==
  /\ calls[p].pc = "idle"
  /\ calls' = [calls EXCEPT ![p] = AfterValidate(validatePathEntry(
                 [Idle EXCEPT !.op = "validatePath", !.requestedPath = req],
                 allowedDirectories))]
  /\ UNCHANGED <<allowedDirectories, fs, lastCommit>>

\* the awaited fs.realpath(absolute) settles
RealpathSettles(p) ==
  /\ calls[p].pc = "realpath"
  /\ calls' = [calls EXCEPT ![p] =
                 AfterValidate(validatePathRealpath(calls[p], allowedDirectories, fs))]
  /\ UNCHANGED <<allowedDirectories, fs, lastCommit>>

\* the awaited fs.realpath(parentDir) settles
ParentRealpathSettles(p) ==
  /\ calls[p].pc = "realpathParent"
  /\ calls' = [calls EXCEPT ![p] =
                 AfterValidate(validatePathParent(calls[p], allowedDirectories, fs))]
  /\ UNCHANGED <<allowedDirectories, fs, lastCommit>>

\* writeFileContent(filePath, content) is called with a path as it is
CallWriteFileContent(p, path, text) ==
  /\ calls[p].pc = "idle"
  /\ calls' = [calls EXCEPT ![p] =
                 [Idle EXCEPT !.op = "writeFileContent", !.inner = "writeFileContent",
                              !.pc = "wx", !.filePath = path, !.content = text,
                              !.prev = calls[p].prev]]
  /\ UNCHANGED <<allowedDirectories, fs, lastCommit>>

\* readFileContent(filePath) is called
CallReadFileContent(p, path) ==
  /\ calls[p].pc = "idle"
  /\ calls' = [calls EXCEPT ![p] =
                 [Idle EXCEPT !.op = "readFileContent", !.inner = "readFileContent",
                              !.pc = "read", !.filePath = path]]
  /\ UNCHANGED <<allowedDirectories, fs, lastCommit>>

Apply(p, r) ==
  /\ calls' = [calls EXCEPT ![p] = r.call]
  /\ fs' = r.fs
  /\ lastCommit' = IF r.call.pc = "done" /\ r.call.err = NoErr
                      /\ r.call.inner = "writeFileContent"
                     THEN r.call.content ELSE lastCommit
  /\ UNCHANGED allowedDirectories

WxOpen(p) ==
  /\ calls[p].pc = "wx"
  /\ Apply(p, wxOpen(p, calls[p], fs))

WriteData(p) ==
  /\ calls[p].pc \in {"wxData", "tmpData"}
  /\ Apply(p, writeData(p, calls[p], fs))

TmpOpen(p) ==
  /\ calls[p].pc = "tmpOpen"
  /\ Apply(p, tmpOpen(p, calls[p], fs))

Rename(p) ==
  /\ calls[p].pc = "rename"
  /\ Apply(p, rename(p, calls[p], fs))

Unlink(p) ==
  /\ calls[p].pc = "unlink"
  /\ Apply(p, unlink(p, calls[p], fs))

\* the model notes, with the data, the step a write of the same path by
\* another client had reached when the read settled
ReadSettles(p) ==
  /\ calls[p].pc = "read"
  /\ calls' = [calls EXCEPT ![p] =
       [readFile(calls[p], fs) EXCEPT !.during =
          IF \E w \in Clients \ {p} : calls[w].filePath = calls[p].filePath
            THEN calls[CHOOSE w \in Clients \ {p} :
                         calls[w].filePath = calls[p].filePath].pc
            ELSE "none"]]
  /\ UNCHANGED <<allowedDirectories, fs, lastCommit>>

\* applyFileEdits(filePath, edits, dryRun) is called
CallApplyFileEdits(p, path, edits, dryRun) ==
  /\ calls[p].pc = "idle"
  /\ calls' = [calls EXCEPT ![p] =
                 [Idle EXCEPT !.op = "applyFileEdits", !.inner = "applyFileEdits",
                              !.pc = "editRead", !.filePath = path,
                              !.edits = edits, !.dryRun = dryRun]]
  /\ UNCHANGED <<allowedDirectories, fs, lastCommit>>

\* the awaited fs.readFile of applyFileEdits settles
EditReadSettles(p) ==
  /\ calls[p].pc = "editRead"
  /\ calls' = [calls EXCEPT ![p] = applyFileEditsRead(p, calls[p], fs)]
  /\ UNCHANGED <<allowedDirectories, fs, lastCommit>>

\* tailFile(filePath, numLines) is called
CallTailFile(p, path, n) ==
  /\ calls[p].pc = "idle"
  /\ calls' = [calls EXCEPT ![p] =
                 [Idle EXCEPT !.op = "tailFile", !.inner = "tailFile",
                              !.pc = "tailStat", !.filePath = path, !.numLines = n]]
  /\ UNCHANGED <<allowedDirectories, fs, lastCommit>>

\* headFile(filePath, numLines) is called
CallHeadFile(p, path, n) ==
  /\ calls[p].pc = "idle"
  /\ calls' = [calls EXCEPT ![p] =
                 [Idle EXCEPT !.op = "headFile", !.inner = "headFile",
                              !.pc = "headOpen", !.filePath = path, !.numLines = n]]
  /\ UNCHANGED <<allowedDirectories, fs, lastCommit>>

\* a tool handler is called: validatePath(requestedPath), then the function
\* the tool serves, with the path validatePath returned
CallTool(p, inner, req, args) ==
  /\ calls[p].pc = "idle"
  /\ calls' = [calls EXCEPT ![p] = AfterValidate(validatePathEntry(
                 [Idle EXCEPT !.op = "tool", !.inner = inner,
                              !.requestedPath = req,
                              !.content = args.content,
                              !.numLines = args.numLines,
                              !.edits = args.edits, !.dryRun = args.dryRun,
                              !.prev = calls[p].prev],
                 allowedDirectories))]
  /\ UNCHANGED <<allowedDirectories, fs, lastCommit>>

TailStatSettles(p) ==
  /\ calls[p].pc = "tailStat"
  /\ calls' = [calls EXCEPT ![p] = tailFileStat(calls[p], fs)]
  /\ UNCHANGED <<allowedDirectories, fs, lastCommit>>

OpenSettles(p) ==
  /\ calls[p].pc \in {"tailOpen", "headOpen"}
  /\ calls' = [calls EXCEPT ![p] = openRead(calls[p], fs)]
  /\ UNCHANGED <<allowedDirectories, fs, lastCommit>>

TailRead(p) ==
  /\ calls[p].pc = "tailRead"
  /\ calls' = [calls EXCEPT ![p] = tailFileRead(calls[p])]
  /\ UNCHANGED <<allowedDirectories, fs, lastCommit>>

HeadRead(p) ==
  /\ calls[p].pc = "headRead"
  /\ calls' = [calls EXCEPT ![p] = headFileRead(calls[p])]
  /\ UNCHANGED <<allowedDirectories, fs, lastCommit>>

CloseSettles(p) ==
  /\ calls[p].pc = "close"
  /\ calls' = [calls EXCEPT ![p] = closeRead(calls[p])]
  /\ UNCHANGED <<allowedDirectories, fs, lastCommit>>

\* another party makes a directory
EnvMkdirAt(p) ==
  /\ Node(fs, p).kind = "none"
  /\ fs' = Put(fs, p, DirNode)
  /\ UNCHANGED <<allowedDirectories, calls, lastCommit>>

\* another party makes a symbolic link
EnvSymlinkAt(p, t) ==
  /\ Node(fs, p).kind = "none"
  /\ fs' = Put(fs, p, LinkNode(t))
  /\ UNCHANGED <<allowedDirectories, calls, lastCommit>>

\* searchFilesWithValidation(rootPath, pattern, allowedDirectories,
\* { excludePatterns }) is called
CallSearchFiles(p, rootPath, pattern, excludePatterns) ==
  /\ calls[p].pc = "idle"
  /\ calls' = [calls EXCEPT ![p] =
                 [Idle EXCEPT !.op = "searchFilesWithValidation",
                              !.inner = "searchFilesWithValidation",
                              !.pc = "access", !.rootPath = rootPath,
                              !.pattern = pattern,
                              !.excludePatterns = excludePatterns]]
  /\ UNCHANGED <<allowedDirectories, fs, lastCommit>>

\* the database file is there or is not
AccessSettles(p, ok) ==
  /\ calls[p].pc = "access"
  /\ calls' = [calls EXCEPT ![p] = isPlocateAvailableAccess(calls[p], ok)]
  /\ UNCHANGED <<allowedDirectories, fs, lastCommit>>

\* plocate --version runs or fails
VersionSettles(p, ok) ==
  /\ calls[p].pc = "version"
  /\ calls' = [calls EXCEPT ![p] = isPlocateAvailableVersion(calls[p], ok)]
  /\ UNCHANGED <<allowedDirectories, fs, lastCommit>>

\* plocate prints the paths of its index that match
PlocateSucceeds(p) ==
  /\ calls[p].pc = "plocate"
  /\ calls' = [calls EXCEPT ![p] = plocateSucceeded(calls[p], fs)]
  /\ UNCHANGED <<allowedDirectories, fs, lastCommit>>

\* plocate fails: an exit code, a missing command, a timeout
PlocateFails(p, code) ==
  /\ calls[p].pc = "plocate"
  /\ calls' = [calls EXCEPT ![p] = plocateFailed(calls[p], code)]
  /\ UNCHANGED <<allowedDirectories, fs, lastCommit>>

FilterStep(p) ==
  /\ calls[p].pc = "filter"
  /\ calls' = [calls EXCEPT ![p] = searchFilter(calls[p], allowedDirectories, fs)]
  /\ UNCHANGED <<allowedDirectories, fs, lastCommit>>

ReaddirSettles(p) ==
  /\ calls[p].pc = "readdir"
  /\ calls' = [calls EXCEPT ![p] = searchReaddir(calls[p], fs)]
  /\ UNCHANGED <<allowedDirectories, fs, lastCommit>>

\* fs.readdir fails for a directory that is there: no permission to read it
ReaddirFails(p) ==
  /\ calls[p].pc = "readdir"
  /\ calls' = [calls EXCEPT ![p] = searchReaddirSettled(calls[p],
                 [ok |-> FALSE, code |-> "EACCES", entries |-> <<>>])]
  /\ UNCHANGED <<allowedDirectories, fs, lastCommit>>

WalkStep(p) ==
  /\ calls[p].pc = "walk"
  /\ calls' = [calls EXCEPT ![p] = searchEntry(calls[p], allowedDirectories, fs)]
  /\ UNCHANGED <<allowedDirectories, fs, lastCommit>>

\* searchFileContents({ searchPath, pattern, maxResults, includeLineNumbers })
\* is called
CallSearchFileContents(p, searchPath, maxResults, includeLineNumbers) ==
  /\ calls[p].pc = "idle"
  /\ calls' = [calls EXCEPT ![p] = searchFileContentsEntry(
                 [Idle EXCEPT !.op = "searchFileContents",
                              !.inner = "searchFileContents",
                              !.requestedPath = [kind |-> "abs", segs |-> searchPath],
                              !.maxResults = maxResults,
                              !.includeLineNumbers = includeLineNumbers],
                 allowedDirectories, fs)]
  /\ UNCHANGED <<allowedDirectories, fs, lastCommit>>

\* ripgrep ends with status 0
RgSucceeds(p, stdout, stderr) ==
  /\ calls[p].pc = "rg"
  /\ calls' = [calls EXCEPT ![p] = rgSucceeded(calls[p], stdout, stderr)]
  /\ UNCHANGED <<allowedDirectories, fs, lastCommit>>

\* ripgrep fails: it is missing, ends with another status, or is killed
RgFails(p, error) ==
  /\ calls[p].pc = "rg"
  /\ calls' = [calls EXCEPT ![p] = rgFailed(calls[p], error)]
  /\ UNCHANGED <<allowedDirectories, fs, lastCommit>>

\* the client takes the outcome of its call; the model keeps what its last
\* completed write wrote, and where
Finish(p) ==
  /\ calls[p].pc = "done"
  /\ calls' = [calls EXCEPT ![p] =
                 [Idle EXCEPT !.prev =
                    IF calls[p].inner = "writeFileContent" /\ calls[p].err = NoErr
                      THEN [path |-> calls[p].filePath, content |-> calls[p].content]
                      ELSE calls[p].prev]]
  /\ UNCHANGED <<allowedDirectories, fs, lastCommit>>

Init ==
  /\ allowedDirectories = {}
  /\ fs = [q \in {} |-> NoNode]
  /\ calls = [p \in Clients |-> Idle]
  /\ lastCommit = NoText

(***************************************************************************)
(* SpecValidate: validatePath calls, with the allowed set replaced between *)
(* calls and the file system changed by other parties at any time.         *)
(***************************************************************************)
NextValidate ==
  \/ \E dirs \in AllowedChoices : AllIdle /\ SetAllowedDirectories(dirs)
  \/ \E t \in LinkTargets : EnvSymlink(t)
  \/ EnvMkdir
  \/ \E p \in {Target, Outside} : EnvCreate(p, OldContent)
  \/ \E p \in {Target, Outside} : EnvRemove(p)
  \/ \E req \in Requests : CallValidatePath(1, req)
  \/ RealpathSettles(1)
  \/ ParentRealpathSettles(1)
  \/ Finish(1)

SpecValidate == Init /\ [][NextValidate]_vars

(***************************************************************************)
(* Containment as the claims state it: a directory of the allowed set is   *)
(* the path itself or one of its ancestors, segment by segment.            *)
(***************************************************************************)
Prefixes(p) == {SubSeq(p, 1, k) : k \in 0..Len(p)}

InsideAllowed(p, dirs) == \E q \in Prefixes(p) : PathStr(q) \in dirs

Requested(c) == ResolveAbsolute(expandHome(c.requestedPath))

AccessDeniedErrors == {ErrPathOutside, ErrSymlinkOutside, ErrParentOutside}

\* C1: a call whose requested path, once expanded, made absolute and
\* normalized, is neither an allowed directory nor nested under one has
\* already failed with the path-outside error, and has made no file system
\* call (no realpath of the path or of its parent).
C1_OutsideDeniedBeforeFs ==
  \A p \in Clients :
    LET c == calls[p]
    IN (c.requestedPath # NoReq /\ ~InsideAllowed(Requested(c), allowedDirectories))
         => /\ c.pc = "done"
            /\ c.err = ErrPathOutside
            /\ c.ret = NoPath
            /\ c.fsCalls = 0

\* the case of C1: a request that needs normalization to be seen outside
\* (it begins with an allowed directory and leaves it by "..") was denied
C1_Witness ==
  \E p \in Clients :
    LET c == calls[p]
    IN /\ c.op = "validatePath" /\ c.pc = "done"
       /\ c.err = ErrPathOutside /\ c.fsCalls = 0
       /\ c.requestedPath.kind = "abs"
       /\ Len(c.requestedPath.segs) > 0
       /\ PathStr(<<Head(c.requestedPath.segs)>>) \in allowedDirectories

\* C2: when realpath resolved the requested path (which passed the lexical
\* check) to a real path outside every allowed directory, the call has failed
\* with the symlink-target error and returns no path.
C2_SymlinkEscapeDenied ==
  \A p \in Clients :
    LET c == calls[p]
    IN (c.realPath # NoPath /\ ~InsideAllowed(c.realPath, allowedDirectories))
         => /\ c.pc = "done"
            /\ c.err = ErrSymlinkOutside
            /\ c.ret = NoPath

\* the case of C2: a path inside an allowed directory resolved outside
C2_Witness ==
  \E p \in Clients :
    LET c == calls[p]
    IN /\ c.op = "validatePath" /\ c.pc = "done"
       /\ InsideAllowed(c.absolute, allowedDirectories)
       /\ c.realPath # NoPath
       /\ ~InsideAllowed(c.realPath, allowedDirectories)
       /\ c.err = ErrSymlinkOutside

C4_NewFileReturnsRequested ==
  \A p \in Clients :
    LET c == calls[p]
    IN (/\ c.op = "validatePath" /\ c.pc = "done"
        /\ c.realParentPath # NoPath
        /\ InsideAllowed(c.realParentPath, allowedDirectories))
         => c.err = NoErr /\ c.ret = c.absolute

\* the case of C4: the parent was reached through a symbolic link, so the
\* returned path differs from the parent's real path joined with the name
C4_Witness ==
  \E p \in Clients :
    LET c == calls[p]
    IN /\ c.op = "validatePath" /\ c.pc = "done" /\ c.err = NoErr
       /\ c.realParentPath # NoPath
       /\ c.realParentPath # Dirname(c.absolute)
       /\ c.ret = c.absolute

\* C5: when the requested path does not exist and its parent resolves to a
\* real path outside the allowed set, validatePath fails with an access-denied
\* error, not with the parent-missing error.
C5_ParentOutsideAccessDenied ==
  \A p \in Clients :
    LET c == calls[p]
    IN (/\ c.op = "validatePath" /\ c.pc = "done"
        /\ c.realParentPath # NoPath
        /\ ~InsideAllowed(c.realParentPath, allowedDirectories))
         => c.err \in AccessDeniedErrors

(***************************************************************************)
(* SpecSuccessive: one client writes the target again and again, one write *)
(* after the other, while a second client reads it at any moment.          *)
(***************************************************************************)
NextSuccessive ==
  \/ \E text \in WriteContents : CallWriteFileContent(1, Target, text)
  \/ WxOpen(1)
  \/ WriteData(1)
  \/ TmpOpen(1)
  \/ Rename(1)
  \/ CallReadFileContent(2, Target)
  \/ ReadSettles(2)
  \/ \E p \in Clients : Finish(p)

SpecSuccessive == Init /\ [][NextSuccessive]_vars

\* C7: while a client's second (or later) write of a path is in flight or
\* has just completed, every read of that path by another client succeeds
\* and returns the whole content of the previous write or the whole content
\* of this one.
C7_ReadsSeeWholeContent ==
  [][\A r \in Clients : \A w \in Clients \ {r} :
       (/\ calls[r].pc = "read" /\ calls'[r].pc = "done"
        /\ calls[w].inner = "writeFileContent" /\ calls[w].pc # "idle"
        /\ calls[w].filePath = calls[r].filePath
        /\ calls[w].prev.path = calls[w].filePath)
         => /\ calls'[r].err = NoErr
            /\ calls'[r].data \in {calls[w].prev.content, calls[w].content}]_vars

\* the case of C7: a read that settled between the temp-file write and the
\* rename of a second write returned the first write's content
C7_Witness ==
  \E r \in Clients : \E w \in Clients \ {r} :
    /\ calls[w].inner = "writeFileContent" /\ calls[w].pc = "rename"
    /\ calls[w].prev.path = calls[w].filePath
    /\ calls[w].prev.content # calls[w].content
    /\ calls[r].pc = "done" /\ calls[r].filePath = calls[w].filePath
    /\ calls[r].during = "rename"
    /\ calls[r].data = calls[w].prev.content

(***************************************************************************)
(* SpecWriters: two clients write the target at the same time; the target  *)
(* exists beforehand or not.                                               *)
(***************************************************************************)
NextWriters ==
  \/ AllIdle /\ EnvCreate(Target, OldContent)
  \/ \E p \in Clients, text \in WriteContents : CallWriteFileContent(p, Target, text)
  \/ \E p \in Clients : WxOpen(p)
  \/ \E p \in Clients : WriteData(p)
  \/ \E p \in Clients : TmpOpen(p)
  \/ \E p \in Clients : Rename(p)
  \/ \E p \in Clients : Finish(p)

SpecWriters == Init /\ [][NextWriters]_vars

WholeContents == {OldContent} \cup WriteContents

\* C8: with writeFileContent calls of one path running at the same time,
\* every call ends without an error, the path never holds a partial or mixed
\* content, and once all calls are over it holds the content of the call
\* whose create or rename completed last.
C8_ConcurrentWritesWhole ==
  /\ \A p \in Clients : calls[p].pc = "done" => calls[p].err = NoErr
  /\ Node(fs, Target).kind = "file" => Node(fs, Target).content \in WholeContents
  /\ ((\A p \in Clients : calls[p].pc \in {"idle", "done"}) /\ lastCommit # NoText)
       => Node(fs, Target).content = lastCommit

(***************************************************************************)
(* SpecEdits: applyFileEdits calls on the target, whose content other      *)
(* parties set between the calls.                                          *)
(***************************************************************************)
NextEdits ==
  \/ \E doc \in Docs : AllIdle /\ EnvCreate(Target, doc)
  \/ AllIdle /\ EnvRemove(Target)
  \/ \E edits \in EditSeqs, dryRun \in BOOLEAN :
       CallApplyFileEdits(1, Target, edits, dryRun)
  \/ EditReadSettles(1)
  \/ TmpOpen(1)
  \/ WriteData(1)
  \/ Rename(1)
  \/ Finish(1)

SpecEdits == Init /\ [][NextEdits]_vars

RECURSIVE FirstUnmatched(_, _, _)
\* the index of the first edit that finds no match in the text the edits
\* before it produced, 0 when every edit finds one
FirstUnmatched(doc, edits, k) ==
  IF k > Len(edits) THEN 0
  ELSE LET r == applyEdit(doc, edits[k])
       IN IF ~r.ok THEN k ELSE FirstUnmatched(r.text, edits, k + 1)

\* C10: once applyFileEdits has read the file, if some edit of the sequence
\* matches neither exactly nor by a window of trimmed lines, the call has
\* failed with the no-match error carrying that edit's oldText, it has made
\* no file system call but the read (no temp file, no rename), and the file
\* is as it was, also when earlier edits matched.
C10_NoMatchAbortsUntouched ==
  \A p \in Clients :
    LET c == calls[p]
        k == FirstUnmatched(c.original, c.edits, 1)
    IN (c.inner = "applyFileEdits" /\ c.original # NoText /\ k > 0)
         => /\ c.pc = "done"
            /\ c.err = ErrNoMatch
            /\ c.errText = c.edits[k].oldText
            /\ c.fsCalls = 1 /\ c.touched = {c.filePath}
            /\ c.tempPath = NoPath
            /\ DOMAIN fs = {c.filePath}
            /\ Node(fs, c.filePath) = FileNode(c.raw, 0)

\* the case of C10: a call that was to write ended on its second edit, after
\* its first edit had matched
C10_Witness ==
  \E p \in Clients :
    LET c == calls[p]
    IN /\ c.inner = "applyFileEdits" /\ c.pc = "done" /\ ~c.dryRun
       /\ c.err = ErrNoMatch
       /\ FirstUnmatched(c.original, c.edits, 1) = 2
       /\ applyEdit(c.original, c.edits[1]).text # c.original

(***************************************************************************)
(* SpecTools: one client calls the write, tail, head and edit tools, whose *)
(* handlers validate the requested path first, and calls the functions     *)
(* behind them directly, while other parties change the file system at any *)
(* moment.                                                                 *)
(***************************************************************************)
ToolFunctions == {"writeFileContent", "tailFile", "headFile", "applyFileEdits"}

NoArgs == [content |-> Idle.content, numLines |-> 0, edits |-> <<>>, dryRun |-> FALSE]

ToolEdit == [oldText |-> <<"a">>, newText |-> <<"c">>]

ToolCalls ==
  {[inner |-> "writeFileContent", args |-> [NoArgs EXCEPT !.content = t]] :
     t \in WriteContents}
  \cup {[inner |-> f, args |-> [NoArgs EXCEPT !.numLines = n]] :
          f \in {"tailFile", "headFile"}, n \in 1..MaxLines}
  \cup {[inner |-> "applyFileEdits",
         args |-> [NoArgs EXCEPT !.edits = <<ToolEdit>>, !.dryRun = d]] :
          d \in BOOLEAN}

ToolRequests ==
  {[kind |-> "abs", segs |-> Target], [kind |-> "abs", segs |-> Outside],
   [kind |-> "abs", segs |-> <<nA>>]}

ToolAllowed == {{PathStr(<<nA>>)}, {PathStr(<<nA>>), PathStr(<<nE>>)}}

ToolDoc == <<"a", "\n", "b">>

NextTools ==
  \/ \E dirs \in ToolAllowed : AllIdle /\ SetAllowedDirectories(dirs)
  \/ \E t \in LinkTargets : EnvSymlink(t)
  \/ EnvMkdir
  \/ EnvCreate(Target, ToolDoc)
  \/ EnvCreate(Outside, OldContent)
  \/ \E p \in {Target, Outside} : EnvRemove(p)
  \/ \E t \in ToolCalls, req \in ToolRequests : CallTool(1, t.inner, req, t.args)
  \/ \E path \in {Target, Outside}, text \in WriteContents :
       CallWriteFileContent(1, path, text)
  \/ \E path \in {Target, Outside}, n \in 1..MaxLines : CallTailFile(1, path, n)
  \/ \E path \in {Target, Outside}, n \in 1..MaxLines : CallHeadFile(1, path, n)
  \/ \E path \in {Target, Outside}, d \in BOOLEAN :
       CallApplyFileEdits(1, path, <<ToolEdit>>, d)
  \/ RealpathSettles(1)
  \/ ParentRealpathSettles(1)
  \/ WxOpen(1)
  \/ WriteData(1)
  \/ TmpOpen(1)
  \/ Rename(1)
  \/ Unlink(1)
  \/ EditReadSettles(1)
  \/ TailStatSettles(1)
  \/ OpenSettles(1)
  \/ TailRead(1)
  \/ HeadRead(1)
  \/ CloseSettles(1)
  \/ Finish(1)

SpecTools == Init /\ [][NextTools]_vars

C9_SymlinkAtTargetNotFollowed ==
  [][\A p \in Clients :
       LET c == calls[p]
           n == Node(fs, c.filePath)
       IN (/\ c.inner = "writeFileContent"
           /\ c.pc \in {"wx", "wxData", "tmpOpen", "tmpData", "rename", "unlink"}
           /\ n.kind = "link"
           /\ calls'[p] # c)
            => /\ Node(fs', n.target) = Node(fs, n.target)
               /\ c.pc = "wx" => (calls'[p].pc = "tmpOpen" /\ fs' = fs)
               /\ c.pc = "rename"
                    => /\ calls'[p].pc = "done" /\ calls'[p].err = NoErr
                       /\ Node(fs', c.filePath) = FileNode(c.content, 0)]_vars

\* the case of C9: a tool write whose path was validated met a symbolic link
\* to a file outside the allowed set, and ended with the path a regular file
\* and that file as it was
C9_Witness ==
  \E p \in Clients :
    LET c == calls[p]
    IN /\ c.op = "tool" /\ c.inner = "writeFileContent" /\ c.validated
       /\ c.pc = "done" /\ c.err = NoErr
       /\ c.filePath = Target /\ c.linkSeen = Outside
       /\ ~InsideAllowed(Outside, allowedDirectories)
       /\ Node(fs, Target) = FileNode(c.content, 0)
       /\ Node(fs, Outside) = FileNode(OldContent, 0)

\* C11: the step of a dry-run applyFileEdits call, its read of the file,
\* leaves the file system as it was and ends the call, with no temp file
\* named and no path touched but the file's; when every edit found its
\* match the call returns the diff between the normalized content and the
\* edited content.
C11_DryRunMutatesNothing ==
  [][\A p \in Clients :
       LET c == calls[p]
           d == calls'[p]
       IN (c.inner = "applyFileEdits" /\ c.dryRun /\ c.pc # "idle" /\ d # c
           /\ d.pc # "idle")
            => /\ fs' = fs
               /\ d.pc = "done"
               /\ d.tempPath = NoPath
               /\ d.touched = {c.filePath} /\ d.fsCalls = 1
               /\ (FirstUnmatched(d.original, c.edits, 1) = 0 /\ d.original # NoText)
                    => /\ d.err = NoErr
                       /\ d.diff = FormattedDiff(d.original,
                                                 applyEdits(d.original, c.edits).text)]_vars

\* the case of C11: a dry run whose edits change the text has returned
\* their diff, and the file holds what was read
C11_Witness ==
  \E p \in Clients :
    LET c == calls[p]
    IN /\ c.inner = "applyFileEdits" /\ c.dryRun /\ c.pc = "done" /\ c.err = NoErr
       /\ c.modified # c.original
       /\ c.diff = FormattedDiff(c.original, c.modified)
       /\ Node(fs, c.filePath) = FileNode(c.raw, 0)
       /\ DOMAIN fs = {c.filePath}

\* the text with the first occurrence of pat replaced by repl, each
\* character of repl as it is
LiteralReplace(text, pat, repl) ==
  LET i == IndexOf(text, pat)
  IN IF i < 0 THEN text
     ELSE SubSeq(text, 1, i) \o repl \o SubSeq(text, i + Len(pat) + 1, Len(text))

\* C12: a call with one edit whose oldText occurs in the document ends with
\* the document in which the first occurrence of oldText, and nothing else,
\* is replaced by newText, character for character; when the call was no
\* dry run the file holds that document.
C12_ExactMatchReplacedLiterally ==
  \A p \in Clients :
    LET c == calls[p]
        nOld == normalizeLineEndings(c.edits[1].oldText)
        nNew == normalizeLineEndings(c.edits[1].newText)
    IN (/\ c.inner = "applyFileEdits" /\ c.pc = "done" /\ c.err = NoErr
        /\ Len(c.edits) = 1
        /\ Includes(c.original, nOld))
         => /\ c.modified = LiteralReplace(c.original, nOld, nNew)
            /\ ~c.dryRun => Node(fs, c.filePath).content = c.modified

\* C12, for a newText without the dollar sign
C12_LiteralWithoutDollar ==
  \A p \in Clients :
    LET c == calls[p]
        nOld == normalizeLineEndings(c.edits[1].oldText)
        nNew == normalizeLineEndings(c.edits[1].newText)
    IN (/\ c.inner = "applyFileEdits" /\ c.pc = "done" /\ c.err = NoErr
        /\ Len(c.edits) = 1
        /\ Includes(c.original, nOld)
        /\ \A i \in 1..Len(nNew) : nNew[i] # "$")
         => /\ c.modified = LiteralReplace(c.original, nOld, nNew)
            /\ ~c.dryRun => Node(fs, c.filePath).content = c.modified

(***************************************************************************)
(* SpecLines: tailFile and headFile calls on the target, whose content,    *)
(* lines shorter than, as long as and longer than a chunk, other parties   *)
(* set between the calls.                                                  *)
(***************************************************************************)
LineChoices ==
  {<<>>, <<"a">>, <<"b", "c">>, <<"d", "e", "f">>, <<LeadByte, ContByte>>}

LineDocs ==
  {JoinLines(ls) : ls \in UNION {[1..k -> LineChoices] : k \in 1..MaxDocLines}}

NextLines ==
  \/ \E doc \in LineDocs : AllIdle /\ EnvCreate(Target, doc)
  \/ AllIdle /\ EnvRemove(Target)
  \/ \E n \in 1..MaxLines : CallTailFile(1, Target, n)
  \/ \E n \in 1..MaxLines : CallHeadFile(1, Target, n)
  \/ TailStatSettles(1)
  \/ OpenSettles(1)
  \/ TailRead(1)
  \/ HeadRead(1)
  \/ CloseSettles(1)
  \/ Finish(1)

SpecLines == Init /\ [][NextLines]_vars

\* the text of a file, its bytes decoded as a whole
FileText(path) == Decode(Node(fs, path).content)

IsAscii(bytes) == \A i \in 1..Len(bytes) : bytes[i] \notin {LeadByte, ContByte}

\* the last min(n, k) of the k lines of a text, joined by newline
LastLines(text, n) ==
  LET ls == SplitLines(text)
      k == Len(ls)
  IN JoinLines(SubSeq(ls, k - Min(n, k) + 1, k))

\* the lines of a text for headFile: what follows the last newline is a
\* line when it is not empty
HeadLinesOf(text) ==
  LET ls == SplitLines(text)
  IN IF ls[Len(ls)] = <<>> THEN SubSeq(ls, 1, Len(ls) - 1) ELSE ls

\* the first min(n, k) of those lines, joined by newline
FirstLines(text, n) ==
  LET ls == HeadLinesOf(text)
  IN JoinLines(SubSeq(ls, 1, Min(n, Len(ls))))

NoTrailingNewline(bytes) == bytes = <<>> \/ bytes[Len(bytes)] # "\n"

\* C13: a tailFile call on a file of lines joined by newline, with no
\* newline at its end, that ended without an error returns the last
\* min(n, k) lines of the file's text, joined by newline, wherever the chunk
\* boundaries fall.
C13_TailReturnsLastLines ==
  \A p \in Clients :
    LET c == calls[p]
    IN (/\ c.inner = "tailFile" /\ c.pc = "done" /\ c.err = NoErr
        /\ NoTrailingNewline(Node(fs, c.filePath).content))
         => c.text = LastLines(FileText(c.filePath), c.numLines)

\* C13, for a file of one-byte characters
C13_TailOfAscii ==
  \A p \in Clients :
    LET c == calls[p]
    IN (/\ c.inner = "tailFile" /\ c.pc = "done" /\ c.err = NoErr
        /\ IsAscii(Node(fs, c.filePath).content))
         => c.text = LastLines(FileText(c.filePath), c.numLines)

\* C14: a headFile call that ended without an error returns the first
\* min(n, k) lines of the file's text, joined by newline, wherever the chunk
\* boundaries fall, the text after the last newline being a line when it
\* is not empty.
C14_HeadReturnsFirstLines ==
  \A p \in Clients :
    LET c == calls[p]
    IN (c.inner = "headFile" /\ c.pc = "done" /\ c.err = NoErr)
         => c.text = FirstLines(FileText(c.filePath), c.numLines)

\* C14, for a file of one-byte characters
C14_HeadOfAscii ==
  \A p \in Clients :
    LET c == calls[p]
    IN (/\ c.inner = "headFile" /\ c.pc = "done" /\ c.err = NoErr
        /\ IsAscii(Node(fs, c.filePath).content))
         => c.text = FirstLines(FileText(c.filePath), c.numLines)

(***************************************************************************)
(* SpecSearch: searchFilesWithValidation calls over a tree that other      *)
(* parties build and take down between the calls; the index of plocate     *)
(* reflects the tree.                                                      *)
(***************************************************************************)
PlocateErrors == {"1", "2", "127", "ENOENT", "ETIMEDOUT"}

SearchRoots == {<<nA>>, <<nA, nE>>}

SearchPatterns ==
  {<<"f">>, <<"*", "f">>, <<"*", "*", "/", "f">>, <<"e", "/", "*", "*">>,
   <<"e", "/", "*">>, <<"*", "*">>, <<"{", "f", ",", "e", "}">>,
   <<"@", "(", "f", ")">>, <<"\\", "f">>, <<"!", "f">>, <<>>, <<"/">>}

ExcludeChoices == {<<>>, << <<"e">> >>}

SearchFiles == {<<nA, nF>>, <<nA, nE>>, <<nA, nE, nF>>, <<nE, nF>>, <<nA2, nF>>}

\* symbolic links: out of the allowed directories, and back to an ancestor
SearchLinks ==
  {[at |-> <<nA, nE>>, to |-> <<nE>>], [at |-> <<nA, nE>>, to |-> <<nA>>],
   [at |-> <<nA, nF>>, to |-> <<nE>>]}

SearchAllowed ==
  {{PathStr(<<nA>>)}, {PathStr(<<nA>>), PathStr(<<nE>>)},
   {PathStr(<<nA>>), PathStr(<<nA2>>)}}

NextSearch ==
  \/ \E dirs \in SearchAllowed : AllIdle /\ SetAllowedDirectories(dirs)
  \/ \E q \in SearchFiles :
       AllIdle /\ Node(fs, Dirname(q)).kind = "dir" /\ EnvCreate(q, <<>>)
  \/ AllIdle /\ EnvMkdirAt(<<nA, nE>>)
  \/ \E l \in SearchLinks : AllIdle /\ EnvSymlinkAt(l.at, l.to)
  \/ \E q \in SearchFiles :
       AllIdle /\ (\A x \in DOMAIN fs : Dirname(x) # q) /\ EnvRemove(q)
  \/ \E rootPath \in SearchRoots, pattern \in SearchPatterns,
        excludePatterns \in ExcludeChoices :
       CallSearchFiles(1, rootPath, pattern, excludePatterns)
  \/ \E ok \in BOOLEAN : AccessSettles(1, ok)
  \/ \E ok \in BOOLEAN : VersionSettles(1, ok)
  \/ PlocateSucceeds(1)
  \/ \E code \in PlocateErrors : PlocateFails(1, code)
  \/ FilterStep(1)
  \/ ReaddirSettles(1)
  \/ WalkStep(1)
  \/ Finish(1)

SpecSearch == Init /\ [][NextSearch]_vars

Searches == {p \in Clients : calls[p].inner = "searchFilesWithValidation"}

(***************************************************************************)
(* C15.  When plocate is run and ends with exit code 1, "no matches",      *)
(* searchFilesWithValidation returns the empty list and fs.readdir is      *)
(* never called in that call.                                              *)
(***************************************************************************)
C15_NoMatchesReturnsEmptyWithoutWalk ==
  \A p \in Searches :
    LET c == calls[p]
    IN c.exit = "1" => /\ c.pc = "done"
                       /\ c.err = NoErr
                       /\ c.found = <<>>
                       /\ c.readdirs = 0

\* exit code 1 for a pattern the walk would have found a file for
C15_Witness ==
  \E p \in Searches :
    LET c == calls[p]
    IN /\ c.exit = "1" /\ c.pc = "done"
       /\ c.pattern = <<"*", "*", "/", "f">>
       /\ c.rootPath = <<nA>>
       /\ Node(fs, <<nA, nF>>).kind = "file"
       /\ PathStr(<<nA>>) \in allowedDirectories

RECURSIVE WalkDir(_, _, _, _, _, _)
RECURSIVE WalkEntries(_, _, _, _, _, _, _)
\* the paths the walk of a directory collects, as a function of the tree
WalkDir(fsys, dirs, rootPath, dir, pattern, excludePatterns) ==
  LET r == Readdir(fsys, dir)
  IN IF r.ok
       THEN WalkEntries(fsys, dirs, rootPath, dir, r.entries, pattern, excludePatterns)
       ELSE <<>>

WalkEntries(fsys, dirs, rootPath, dir, entries, pattern, excludePatterns) ==
  IF entries = <<>> THEN <<>>
  ELSE LET entry == Head(entries)
           fullPath == Append(dir, entry.name)
           relativePath == Relative(rootPath, fullPath)
           here == IF \/ validatePathWhole(fullPath, dirs, fsys).err # NoErr
                      \/ shouldExclude(relativePath, excludePatterns)
                     THEN <<>>
                     ELSE (IF minimatch(relativePath, pattern)
                             THEN <<fullPath>> ELSE <<>>)
                          \o (IF entry.isDirectory
                                THEN WalkDir(fsys, dirs, rootPath, fullPath,
                                             pattern, excludePatterns)
                                ELSE <<>>)
       IN here \o WalkEntries(fsys, dirs, rootPath, dir, Tail(entries),
                              pattern, excludePatterns)

\* what the walk alone gives for the root, pattern and excludes of a call
WalkAlone(c) ==
  LET r == Readdir(fs, c.rootPath)
  IN [err |-> IF r.ok THEN NoErr ELSE r.code,
      found |-> WalkDir(fs, allowedDirectories, c.rootPath, c.rootPath,
                        c.pattern, c.excludePatterns)]

NoDuplicates(list) ==
  \A i, j \in 1..Len(list) : list[i] = list[j] => i = j

\* the failures of a plocate run other than exit code 1
FallbackErrors == PlocateErrors \ {"1"}

(***************************************************************************)
(* C16.  When plocate is not available, or its run fails with anything but *)
(* exit code 1, the call ends as the walk alone ends for the same root,    *)
(* pattern and excludes: the same error, or the same list, with no path    *)
(* twice.                                                                  *)
(***************************************************************************)
C16_FallbackGivesTheWalk ==
  \A p \in Searches :
    LET c == calls[p]
    IN (c.pc = "done" /\ (~c.usePlocate \/ c.exit \in FallbackErrors))
         => /\ c.err = WalkAlone(c).err
            /\ c.err = NoErr => /\ c.found = WalkAlone(c).found
                                /\ NoDuplicates(c.found)
                                /\ c.readdirs >= 1

\* a plocate run that failed, and a walk that then found two paths
C16_Witness ==
  \E p \in Searches :
    LET c == calls[p]
    IN /\ c.pc = "done" /\ c.usePlocate /\ c.exit \in FallbackErrors
       /\ c.err = NoErr
       /\ Len(c.found) >= 2

\* plocate not available, and a walk that found a path
C16_WitnessAbsent ==
  \E p \in Searches :
    LET c == calls[p]
    IN c.pc = "done" /\ ~c.usePlocate /\ c.err = NoErr /\ Len(c.found) >= 1

\* a pattern that, with its "**" segments stripped, still holds syntax
\* plocate does not take
Unsupported(pattern) ==
  LET stripped == RemoveSlashesStarStar(RemoveStarStarSlashes(
                    RemoveTrailingStarStar(RemoveLeadingStarStar(pattern))))
  IN \/ Includes(stripped, <<"*", "*">>)
     \/ Includes(stripped, <<"{">>)
     \/ \E op \in {"!", "?", "*", "+", "@"} : Includes(stripped, <<op, "(">>)
     \/ Includes(stripped, <<"\\">>)
     \/ StartsWith(stripped, <<"!">>)
     \/ stripped = <<>>
     \/ stripped = <<"/">>

(***************************************************************************)
(* C17.  For a pattern that still holds "**", "{", an extended-glob        *)
(* operator, a backslash or a leading "!" after the stripping, or is       *)
(* empty or "/" then, plocate is never run with a search pattern in the    *)
(* call, and the call ends as the walk with the original pattern ends.     *)
(***************************************************************************)
C17_UnsupportedPatternSkipsPlocate ==
  \A p \in Searches :
    LET c == calls[p]
    IN Unsupported(c.pattern)
         => /\ c.plocateArgs = <<>>
            /\ c.exit = "none"
            /\ c.pc \notin {"plocate", "filter"}
            /\ c.pc = "done"
                 => /\ c.err = WalkAlone(c).err
                    /\ c.err = NoErr => c.found = WalkAlone(c).found

\* plocate is available, the pattern has a brace group, the walk found a path
C17_Witness ==
  \E p \in Searches :
    LET c == calls[p]
    IN /\ c.pc = "done" /\ c.usePlocate /\ c.err = NoErr
       /\ c.pattern = <<"{", "f", ",", "e", "}">>
       /\ Len(c.found) >= 1

Members(list) == {list[i] : i \in 1..Len(list)}

(***************************************************************************)
(* C18.  For a pattern that is passed to plocate, whose index reflects the *)
(* tree, the list returned from the paths plocate printed holds the same   *)
(* paths as the walk gives for the original pattern.                       *)
(***************************************************************************)
C18_IndexedSearchGivesTheWalk ==
  \A p \in Searches :
    LET c == calls[p]
    IN (c.pc = "done" /\ c.exit = "0" /\ WalkAlone(c).err = NoErr)
         => Members(c.found) = Members(WalkAlone(c).found)

\* the pattern "*f" under /a: the list from plocate holds /a/e/f, which the
\* pattern does not match and the walk does not give
C18_DeeperPathAdmitted ==
  \E p \in Searches :
    LET c == calls[p]
    IN /\ c.pc = "done" /\ c.exit = "0"
       /\ c.pattern = <<"*", "f">> /\ c.rootPath = <<nA>>
       /\ c.excludePatterns = <<>>
       /\ <<nA, nE, nF>> \in Members(c.found)
       /\ <<nA, nE, nF>> \notin Members(WalkAlone(c).found)
       /\ ~minimatch(Relative(c.rootPath, <<nA, nE, nF>>), c.pattern)

(***************************************************************************)
(* SpecGrep: searchFileContents calls; ripgrep prints up to MaxRgLines     *)
(* lines, or fails.                                                        *)
(***************************************************************************)
RgLines ==
  {PathStr(Target) \o <<":", "1", ":", "x">>,
   PathStr(Target) \o <<":", "2", ":">>,
   PathStr(<<nA, nE>>) \o <<":", "1", ":", "x">>,
   PathStr(Target) \o <<"-", "3", "-", "y">>,
   <<"-", "-", "-">>}

RECURSIVE Printed(_)
\* the output of ripgrep: each line with its line feed
Printed(lines) ==
  IF lines = <<>> THEN <<>> ELSE Head(lines) \o <<"\n">> \o Printed(Tail(lines))

RgOutputs == {Printed(lines) : lines \in SeqsUpTo(RgLines, MaxRgLines)}

RgStderr == {<<>>, <<"w">>, <<"No matches found">>}

RgErrors == [code : {"ENOENT", "1", "2", "null"}, message : {<<>>, <<"m">>}]

GrepPaths == {<<nA>>, <<nE>>}

NextGrep ==
  \/ \E dirs \in SearchAllowed : AllIdle /\ SetAllowedDirectories(dirs)
  \/ \E searchPath \in GrepPaths, maxResults \in 1..MaxResultsBound,
        includeLineNumbers \in BOOLEAN :
       CallSearchFileContents(1, searchPath, maxResults, includeLineNumbers)
  \/ \E stdout \in RgOutputs, stderr \in RgStderr : RgSucceeds(1, stdout, stderr)
  \/ \E error \in RgErrors : RgFails(1, error)
  \/ Finish(1)

SpecGrep == Init /\ [][NextGrep]_vars

Greps == {p \in Clients : calls[p].inner = "searchFileContents"}

\* the lines of the form path:number:content that ripgrep printed
Available(stdout) ==
  LET lines == SplitLines(stdout)
  IN Cardinality({i \in 1..Len(lines) : ParseLine(lines[i]).ok})

\* the lines of a report below its "File:" line
ReportedIn(report) == Len(SplitLines(report)) - 1

RECURSIVE Sum(_)
Sum(numbers) == IF numbers = <<>> THEN 0 ELSE Head(numbers) + Sum(Tail(numbers))

Reported(reports) == Sum([k \in 1..Len(reports) |-> ReportedIn(reports[k])])

(***************************************************************************)
(* C19.  The lines reported by a searchFileContents call, over all of its  *)
(* reports, are at most maxResults, and are maxResults when ripgrep        *)
(* printed that many lines or more: one cap for all files together.        *)
(***************************************************************************)
C19_OneCapForAllFiles ==
  \A p \in Greps :
    LET c == calls[p]
    IN (c.pc = "done" /\ c.exit = "0" /\ c.err = NoErr)
         => /\ Reported(c.reports) <= c.maxResults
            /\ Available(c.stdout) >= c.maxResults
                 => Reported(c.reports) = c.maxResults

\* the same with line numbers in the reports: then no reported line is blank
C19_OneCapWithLineNumbers ==
  \A p \in Greps :
    LET c == calls[p]
    IN (c.pc = "done" /\ c.exit = "0" /\ c.err = NoErr /\ c.includeLineNumbers)
         => /\ Reported(c.reports) <= c.maxResults
            /\ Available(c.stdout) >= c.maxResults
                 => Reported(c.reports) = c.maxResults

(***************************************************************************)
(* C20.  A failed ripgrep run ends the call in one of three ways: ENOENT   *)
(* gives the "not installed" error; exit code 1 gives the empty list and   *)
(* no error; every other failure gives the "execution failed" error with   *)
(* the message of the failure.  Only exit code 1 gives an empty list.      *)
(***************************************************************************)
C20_RipgrepOutcomes ==
  \A p \in Greps :
    LET c == calls[p]
    IN /\ (c.pc = "done" /\ c.exit \notin {"none", "0"})
            => /\ c.exit = "ENOENT" => c.err = ErrRgMissing
               /\ c.exit = "1" => (c.err = NoErr /\ c.reports = <<>>)
               /\ c.exit \notin {"ENOENT", "1"}
                    => /\ c.err = ErrRgFailed
                       /\ c.message # <<>> => c.errText = c.message
               /\ c.err = NoErr => c.exit = "1"
       /\ (c.pc = "done" /\ c.exit = "0" /\ c.stdout = <<>> /\ c.stderr # <<>>
           /\ c.stderr # <<"No matches found">>)
            => /\ c.err = ErrRgFailed
               /\ c.errText = <<"ripgrep error: ">> \o c.stderr

\* ripgrep ended with status 2 and a message, and the call threw it on
C20_Witness ==
  \E p \in Greps :
    LET c == calls[p]
    IN /\ c.pc = "done" /\ c.exit = "2" /\ c.message = <<"m">>
       /\ c.err = ErrRgFailed /\ c.errText = <<"m">>

\* what the caller of applyFileEdits receives beside an error: the diff when
\* the call returns, nothing when it throws
ReturnedDiff(c) ==
  IF c.pc = "done" /\ c.err = NoErr THEN c.diff ELSE <<>>

(***************************************************************************)
(* C21.  When applyFileEdits, not a dry run, fails to write the temp file  *)
(* or to rename it, the caller receives the error and still receives the   *)
(* diff of the edits.                                                      *)
(***************************************************************************)
C21_PersistFailureReturnsDiff ==
  \A p \in Clients :
    LET c == calls[p]
    IN (c.inner = "applyFileEdits" /\ c.pc = "done" /\ ~c.dryRun
        /\ c.pendingErr # NoErr)
         => /\ c.err = c.pendingErr
            /\ ReturnedDiff(c) = FormattedDiff(c.original, c.modified)

\* the half of C21 that holds: the failure reaches the caller as the error
\* of the failed call, after the diff was made
C21_PersistFailureSurfaced ==
  \A p \in Clients :
    LET c == calls[p]
    IN (c.inner = "applyFileEdits" /\ c.pc = "done" /\ ~c.dryRun
        /\ c.pendingErr # NoErr)
         => /\ c.err = c.pendingErr
            /\ c.diff = FormattedDiff(c.original, c.modified)

(***************************************************************************)
(* SpecWalk: the calls of SpecSearch, with directories that cannot be      *)
(* listed.                                                                 *)
(***************************************************************************)
NextWalk ==
  \/ NextSearch
  \/ ReaddirFails(1)

SpecWalk == Init /\ [][NextWalk]_vars

\* the directories strictly between the root and a path under it
Between(rootPath, q) ==
  {SubSeq(q, 1, k) : k \in (Len(rootPath) + 1)..(Len(q) - 1)}

Under(rootPath, q) ==
  Len(q) > Len(rootPath) /\ SubSeq(q, 1, Len(rootPath)) = rootPath

\* an entry the walk of a call passes over: its validation fails
Invalid(q) == validatePathWhole(q, allowedDirectories, fs).err # NoErr

Excluded(c, q) == shouldExclude(Relative(c.rootPath, q), c.excludePatterns)

\* the paths under the root that the walk can come to: each directory on
\* the way is a directory, valid and not excluded
Reachable(c) ==
  {q \in IndexPaths(fs) :
     /\ Under(c.rootPath, q)
     /\ \A d \in Between(c.rootPath, q) :
          Node(fs, d).kind = "dir" /\ ~Invalid(d) /\ ~Excluded(c, d)}

Matching(c, q) ==
  ~Invalid(q) /\ ~Excluded(c, q) /\ minimatch(Relative(c.rootPath, q), c.pattern)

(***************************************************************************)
(* C22.  A walk whose root was listed ends without an error, whatever      *)
(* entries fail validation and whatever directories below the root cannot  *)
(* be listed: it returns every matching, valid path, not excluded, that is *)
(* outside those entries, and no path below one of them.                   *)
(***************************************************************************)
C22_FailedEntriesAreSkipped ==
  \A p \in Searches :
    LET c == calls[p]
    IN (c.pc = "done" /\ c.listed # <<>> /\ Node(fs, c.rootPath).kind = "dir")
         => /\ c.err = NoErr
            /\ \A q \in Reachable(c) :
                 (Matching(c, q) /\ q \notin c.unread
                  /\ Between(c.rootPath, q) \cap c.unread = {})
                   => q \in Members(c.found)
            /\ \A q \in Members(c.found) :
                 /\ q \in Reachable(c) /\ Matching(c, q)
                 /\ Between(c.rootPath, q) \cap c.unread = {}

\* a directory that could not be listed, an entry that failed validation,
\* and a sibling of both that was found
C22_Witness ==
  \E p \in Searches :
    LET c == calls[p]
    IN /\ c.pc = "done" /\ c.err = NoErr
       /\ c.unread # {}
       /\ Len(c.found) >= 1
       /\ \E q \in Reachable(c) : Invalid(q)

RECURSIVE After(_, _, _)
\* the document after the first k edits, each applied to what the edits
\* before it left
After(doc, edits, k) ==
  IF k = 0 THEN doc ELSE applyEdit(After(doc, edits, k - 1), edits[k]).text

\* the edit finds its oldText in the text, exactly or by a window of lines
Matches(doc, edit) == applyEdit(doc, edit).ok

\* the k-th edit of the call meets its oldText only in what the edits before
\* it introduced
IntroducedBefore(c, k) ==
  /\ ~Matches(c.original, c.edits[k])
  /\ Matches(After(c.original, c.edits, k - 1), c.edits[k])

\* the oldText of the k-th edit was in the file and the edits before it
\* removed it
RemovedBefore(c, k) ==
  /\ Matches(c.original, c.edits[k])
  /\ ~Matches(After(c.original, c.edits, k - 1), c.edits[k])

\* C24: once applyFileEdits has read the file, its edits have been applied
\* in list order, each to the document the edits before it produced and
\* never to the original content: when every edit matches in the document
\* the edits before it left, also one whose oldText is only in text an
\* earlier edit introduced, the call has not failed with no-match and its
\* new content is the document after the last edit; when the edits before
\* the k-th all matched and removed the k-th's oldText, the call has failed
\* with no-match on that oldText, though the original content held it.
C24_EditsInListOrder ==
  \A p \in Clients :
    LET c == calls[p]
        n == Len(c.edits)
    IN (c.inner = "applyFileEdits" /\ c.original # NoText)
         => /\ (\A k \in 1..n : Matches(After(c.original, c.edits, k - 1), c.edits[k]))
                 => /\ c.err # ErrNoMatch
                    /\ c.modified = After(c.original, c.edits, n)
            /\ \A k \in 1..n :
                 ((\A j \in 1..(k - 1) :
                     Matches(After(c.original, c.edits, j - 1), c.edits[j]))
                  /\ RemovedBefore(c, k))
                   => /\ c.pc = "done" /\ c.err = ErrNoMatch
                      /\ c.errText = c.edits[k].oldText

\* the cases of C24: a call went through though its second edit's oldText
\* was only in what its first edit wrote, and the two edits changed the
\* document one after the other
C24_WitnessIntroduced ==
  \E p \in Clients :
    LET c == calls[p]
    IN /\ c.inner = "applyFileEdits" /\ c.pc = "done" /\ c.err = NoErr
       /\ Len(c.edits) = 2 /\ IntroducedBefore(c, 2)
       /\ After(c.original, c.edits, 1) # c.original
       /\ c.modified # After(c.original, c.edits, 1)

\* the line indexes (0-based) of the document at which every line of the
\* old text is the document's line there, white space at both ends of the
\* two set aside
Windows(doc, old) ==
  LET docLines == SplitLines(doc)
      oldLines == SplitLines(old)
  IN {i \in 0..(Len(docLines) - Len(oldLines)) :
        \A j \in 1..Len(oldLines) : Trim(oldLines[j]) = Trim(docLines[i + j])}

\* the edits of the call that were tried: all of them, or those up to the
\* first without a match
Tried(c) ==
  LET k == FirstUnmatched(c.original, c.edits, 1)
  IN IF k = 0 THEN 1..Len(c.edits) ELSE 1..k

\* the k-th edit of the call found no exact match in the document before it
Inexact(c, k) ==
  ~Includes(After(c.original, c.edits, k - 1), normalizeLineEndings(c.edits[k].oldText))

\* C25: an edit whose oldText is no substring of the document is applied at
\* the lowest line index where every line of oldText equals the document's
\* line after trimming both: the lines before that window and the lines
\* after it are unchanged, the window's lines give way to the lines of
\* newText (indentation aside), and when no window matches, or oldText has
\* more lines than the document, the call fails with no-match on that
\* oldText.
C25_LowestWindowReplaced ==
  \A p \in Clients :
    LET c == calls[p]
    IN (c.inner = "applyFileEdits" /\ c.original # NoText)
         => \A k \in Tried(c) :
              LET doc == After(c.original, c.edits, k - 1)
                  out == After(c.original, c.edits, k)
                  old == normalizeLineEndings(c.edits[k].oldText)
                  W == Windows(doc, old)
                  docLines == SplitLines(doc)
                  outLines == SplitLines(out)
                  newLines == SplitLines(normalizeLineEndings(c.edits[k].newText))
                  m == Len(SplitLines(old))
              IN Inexact(c, k)
                   => /\ (W = {} \/ m > Len(docLines))
                           => /\ c.pc = "done" /\ c.err = ErrNoMatch
                              /\ c.errText = c.edits[k].oldText
                      /\ W # {}
                           => LET i == CHOOSE h \in W : \A g \in W : h <= g
                              IN /\ ~(c.err = ErrNoMatch /\ k = Len(c.edits))
                                 /\ k = Len(c.edits) => c.modified = out
                                 /\ Len(outLines) = Len(docLines) - m + Len(newLines)
                                 /\ SubSeq(outLines, 1, i) = SubSeq(docLines, 1, i)
                                 /\ SubSeq(outLines, i + Len(newLines) + 1, Len(outLines))
                                      = SubSeq(docLines, i + m + 1, Len(docLines))
                                 /\ \A j \in 1..Len(newLines) :
                                      TrimStart(outLines[i + j]) = TrimStart(newLines[j])

\* the case of C25: an edit without an exact match had two windows to choose
\* from, took the first and left the second as it was
C25_Witness ==
  \E p \in Clients :
    LET c == calls[p]
    IN /\ c.inner = "applyFileEdits" /\ c.pc = "done" /\ c.err = NoErr
       /\ Len(c.edits) = 1 /\ Inexact(c, 1)
       /\ Cardinality(Windows(c.original, normalizeLineEndings(c.edits[1].oldText))) = 2
       /\ SplitLines(c.modified)[1] # SplitLines(c.original)[1]
       /\ SplitLines(c.modified)[2] = SplitLines(c.original)[2]

\* the paths plocate printed for the call: the tree stands still while the
\* call runs
PlocateReported(c) == plocateStdout(fs, c.plocateArgs[Len(c.plocateArgs)])

\* a path plocate printed that the call is to return
Admitted(c, q) ==
  /\ q = c.rootPath \/ Under(c.rootPath, q)
  /\ ~Invalid(q)
  /\ ~Excluded(c, q)

\* C26: the list a search returns from the index holds exactly the paths
\* plocate printed that are the root or lie under it by whole segments,
\* pass validatePath and whose path relative to the root matches no
\* exclude pattern, in the order plocate printed them.
C26_IndexResultsFiltered ==
  \A p \in Searches :
    LET c == calls[p]
        Keep(q) == Admitted(c, q)
    IN (c.pc = "done" /\ c.exit = "0")
         => /\ c.err = NoErr
            /\ c.found = SelectSeq(PlocateReported(c), Keep)

\* the case of C26: plocate printed a sibling of the root whose text begins
\* with the root's and which validatePath accepts, a path under the root
\* that validatePath rejects and a path that was returned
C26_Witness ==
  \E p \in Searches :
    LET c == calls[p]
        reported == Members(PlocateReported(c))
    IN /\ c.pc = "done" /\ c.exit = "0" /\ c.found # <<>>
       /\ \E q \in reported :
            /\ ~Under(c.rootPath, q) /\ q # c.rootPath /\ ~Invalid(q)
            /\ StartsWith(PathStr(q), PathStr(c.rootPath))
       /\ \E q \in reported : Under(c.rootPath, q) /\ Invalid(q)

\* plocate printed a valid path under the root that an exclude pattern
\* matches, and the call returned other paths
C26_ExcludedReported ==
  \E p \in Searches :
    LET c == calls[p]
    IN /\ c.pc = "done" /\ c.exit = "0" /\ c.found # <<>>
       /\ \E q \in Members(PlocateReported(c)) :
            Under(c.rootPath, q) /\ ~Invalid(q) /\ Excluded(c, q)

CrLf == <<"\r", "\n">>

\* the texts applyFileEdits normalizes: the file's content and the oldText
\* and newText of every edit
Normalized(c) ==
  {c.original}
    \cup {normalizeLineEndings(c.edits[k].oldText) : k \in 1..Len(c.edits)}
    \cup {normalizeLineEndings(c.edits[k].newText) : k \in 1..Len(c.edits)}

\* C27: once applyFileEdits has read the file, the normalized content and
\* the normalized oldText and newText of every edit hold no carriage return
\* followed by a line feed, and normalizing them again changes nothing.
C27_NormalizedHasNoCrLf ==
  \A p \in Clients :
    LET c == calls[p]
    IN (c.inner = "applyFileEdits" /\ c.original # NoText)
         => \A t \in Normalized(c) :
              /\ ~Includes(t, CrLf)
              /\ normalizeLineEndings(t) = t

\* what holds of normalizeLineEndings in C27's place: a text in which no
\* carriage return stands before a CR LF pair comes out without CR LF, and
\* normalizing it again changes nothing
C27_NormalizedUnlessCrBeforeCrLf ==
  \A p \in Clients :
    LET c == calls[p]
    IN (c.inner = "applyFileEdits" /\ c.original # NoText
        /\ ~Includes(c.raw, <<"\r">> \o CrLf))
         => /\ ~Includes(c.original, CrLf)
            /\ normalizeLineEndings(c.original) = c.original

(***************************************************************************)
(* SpecSearchLive: the searches of SpecSearch under the scheduling of the  *)
(* event loop.  An awaited promise that can settle does settle: fs.access  *)
(* ends as every call of the file system does; the probe plocate --version *)
(* is run with a timeout of 5 s and the query with one of 30 s, so each of *)
(* the two ends or is ended.  The steps of the filter and of the walk      *)
(* (FilterStep, ReaddirSettles, WalkStep) are weakly fair too; their weak  *)
(* fairness is written out by its definition, []<>(not enabled) \/         *)
(* []<>(step taken), with LoopEnabled in the place of ENABLED.             *)
(***************************************************************************)
ProbeSettles(p) ==
  \/ \E ok \in BOOLEAN : AccessSettles(p, ok)
  \/ \E ok \in BOOLEAN : VersionSettles(p, ok)

QuerySettles(p) ==
  \/ \E code \in PlocateErrors : PlocateFails(p, code)
  \/ PlocateSucceeds(p)

LoopStep(p) == FilterStep(p) \/ ReaddirSettles(p) \/ WalkStep(p)

\* ENABLED <<LoopStep(p)>>_vars as a function of the state: the call is at
\* "filter", "readdir" or "walk" and its step gives a call that differs from
\* the present one
LoopEnabled(p) ==
  LET c == calls[p]
  IN \/ c.pc = "filter" /\ searchFilter(c, allowedDirectories, fs) # c
     \/ c.pc = "readdir" /\ searchReaddir(c, fs) # c
     \/ c.pc = "walk" /\ searchEntry(c, allowedDirectories, fs) # c

LiveFiles == {<<nA, nF>>, <<nA, nE, nF>>}

LiveRoots == {<<nA>>, <<nA, nE>>}

LivePatterns == {<<"f">>, <<"*", "*", "/", "f">>, <<"*">>}

\* the searches of one client on a tree that other parties build between
\* the calls: files, a directory and a link from /a/e back to /a
NextSearchLive ==
  \/ AllIdle /\ SetAllowedDirectories({PathStr(<<nA>>)})
  \/ \E q \in LiveFiles :
       AllIdle /\ Node(fs, Dirname(q)).kind = "dir" /\ EnvCreate(q, <<>>)
  \/ AllIdle /\ EnvMkdirAt(<<nA, nE>>)
  \/ AllIdle /\ EnvSymlinkAt(<<nA, nE>>, <<nA>>)
  \/ \E q \in LiveFiles \cup {<<nA, nE>>} :
       AllIdle /\ (\A x \in DOMAIN fs : Dirname(x) # q) /\ EnvRemove(q)
  \/ \E rootPath \in LiveRoots, pattern \in LivePatterns,
        excludePatterns \in ExcludeChoices :
       CallSearchFiles(1, rootPath, pattern, excludePatterns)
  \/ \E ok \in BOOLEAN : AccessSettles(1, ok)
  \/ \E ok \in BOOLEAN : VersionSettles(1, ok)
  \/ PlocateSucceeds(1)
  \/ \E code \in PlocateErrors : PlocateFails(1, code)
  \/ FilterStep(1)
  \/ ReaddirSettles(1)
  \/ WalkStep(1)
  \/ Finish(1)

SpecSearchLive ==
  /\ Init /\ [][NextSearchLive]_vars
  /\ WF_vars(ProbeSettles(1))
  /\ WF_vars(QuerySettles(1))
  /\ ([]<>(~LoopEnabled(1)) \/ []<><<LoopStep(1)>>_vars)

Searching(p) ==
  calls[p].inner = "searchFilesWithValidation" /\ calls[p].pc \notin {"idle", "done"}

\* C28: every searchFilesWithValidation call that was started comes to its
\* end, with a list or an error; a call whose plocate query was ended by
\* its timeout comes to its end after the walk has listed its root.
C28_EverySearchCompletes ==
  \A p \in Clients :
    /\ Searching(p) ~> (calls[p].pc = "done")
    /\ (Searching(p) /\ calls[p].exit = "ETIMEDOUT")
         ~> (calls[p].pc = "done" /\ calls[p].exit = "ETIMEDOUT"
             /\ calls[p].readdirs >= 1)

\* the case of C28: the query timed out and the walk returned what it found
C28_Witness ==
  \E p \in Searches :
    LET c == calls[p]
    IN /\ c.pc = "done" /\ c.err = NoErr /\ c.usePlocate /\ c.exit = "ETIMEDOUT"
       /\ c.readdirs >= 2 /\ c.found # <<>>

\* the directories a call has listed, each by the path its links resolve to
ListedDirs(c) == [i \in 1..Len(c.listed) |-> Realpath(fs, c.listed[i]).path]

\* a link below the root of the call that leads back to the root or above it
CycleBelow(c) ==
  \E q \in DOMAIN fs :
    /\ Under(c.rootPath, q)
    /\ Node(fs, q).kind = "link"
    /\ LET t == Realpath(fs, q)
       IN t.ok /\ (t.path = c.rootPath \/ Under(t.path, c.rootPath))

\* C29: the walk of a search comes to its end on every tree, also on one
\* with a symbolic link that leads back to a directory above it, and no
\* directory is listed twice in one search.
C29_WalkTerminatesListingOnce ==
  \A p \in Clients :
    /\ [](calls[p].inner = "searchFilesWithValidation"
            => NoDuplicates(ListedDirs(calls[p])))
    /\ (calls[p].inner = "searchFilesWithValidation"
         /\ calls[p].pc \in {"readdir", "walk"}) ~> (calls[p].pc = "done")

\* the case of C29: a walk ended on a tree in which a link below the root
\* leads back to the root, with the root listed and a file found
C29_Witness ==
  \E p \in Searches :
    LET c == calls[p]
    IN /\ c.pc = "done" /\ c.err = NoErr /\ c.readdirs >= 1
       /\ CycleBelow(c)
       /\ c.listed # <<>> /\ c.found # <<>>

(***************************************************************************)
(* SpecSwap: validatePath calls while the allowed directories are replaced *)
(* at any moment, also between the awaits of a call, and other parties     *)
(* change the tree.                                                        *)
(***************************************************************************)
NextSwap ==
  \/ \E dirs \in AllowedChoices : SetAllowedDirectories(dirs)
  \/ \E t \in LinkTargets : EnvSymlink(t)
  \/ EnvMkdir
  \/ \E p \in {Target, Outside} : EnvCreate(p, OldContent)
  \/ \E p \in {Target, Outside} : EnvRemove(p)
  \/ \E req \in Requests : CallValidatePath(1, req)
  \/ RealpathSettles(1)
  \/ ParentRealpathSettles(1)
  \/ Finish(1)

SpecSwap == Init /\ [][NextSwap]_vars

\* the step in which a validatePath call returns a path
Returns(p) ==
  /\ calls[p].op = "validatePath" /\ calls[p].pc \in {"realpath", "realpathParent"}
  /\ calls'[p].pc = "done" /\ calls'[p].err = NoErr

\* the test validatePath makes of a path before its first await
Admits(dirs, path) == isPathWithinAllowedDirectories(normalizePath(path), dirs)

\* C30: whatever replaces the allowed directories while a validatePath call
\* waits for fs.realpath, the path the call returns is within the allowed
\* directories in force when it returns, in the branch of the existing path
\* and in the branch of the parent check.
C30_ReturnedPathInSetInForce ==
  [][\A p \in Clients :
       Returns(p) => Admits(allowedDirectories', calls'[p].ret)]_vars

\* what holds in C30's place, the existing path: the real path returned is
\* within the directories in force at the return
C30_RealPathInSetInForce ==
  [][\A p \in Clients :
       (Returns(p) /\ calls[p].pc = "realpath")
         => Admits(allowedDirectories', calls'[p].ret)]_vars

\* what holds in C30's place, the parent check: the real path of the parent
\* is within the directories in force at the return
C30_RealParentInSetInForce ==
  [][\A p \in Clients :
       (Returns(p) /\ calls[p].pc = "realpathParent")
         => /\ calls'[p].ret = calls[p].absolute
            /\ Admits(allowedDirectories', calls'[p].realParentPath)]_vars

\* a call returned its real path after the set that admitted the request
\* had been replaced by one that does not admit the request
C30_ReturnedAfterSwap ==
  \E p \in Clients :
    LET c == calls[p]
    IN /\ c.op = "validatePath" /\ c.pc = "done" /\ c.err = NoErr
       /\ c.realParentPath = NoPath
       /\ ~Admits(allowedDirectories, c.absolute)
       /\ Admits(allowedDirectories, c.ret)


====
